---- MODULE Spec2Model ----
(***************************************************************************)
(* The I/O relay of firecracker-containerd-agent-client (src/util/io.go):  *)
(* ioConnectorSet (the Proxy Set), IOConnectorPair.proxy (the Stream       *)
(* Proxy), logClose, and the goroutines Start spawns.  Every goroutine is  *)
(* a process of the model; one action is one step of one goroutine between *)
(* two points where it can block or be observed.                           *)
(***************************************************************************)
EXTENDS Integers, Sequences, FiniteSets, TLC

(***************************************************************************)
(* Bounds of the model.                                                    *)
(***************************************************************************)
MaxContent == 2

NumCallers == 2

(***************************************************************************)
(* Program constants.                                                      *)
(***************************************************************************)
\* io.go:32, in seconds
defaultIOFlushTimeout == 5

\* io.go:33
defaultBufferSize == 1024

Streams == {"stdin", "stdout", "stderr"}

Sides == {"read", "write"}

Callers == 1..NumCallers

\* A uint32 is kept as its two 16-bit halves, hi * 2^16 + lo.
Half == 65536

U32(hi, lo) == [hi |-> hi, lo |-> lo]

\* uint32 addition: the carry out of the upper half is dropped.
AddU32(a, b) ==
    U32((a.hi + b.hi + ((a.lo + b.lo) \div Half)) % Half, (a.lo + b.lo) % Half)

\* uint32 subtraction, likewise modulo 2^32.
SubU32(a, b) ==
    U32((a.hi - b.hi - (IF a.lo < b.lo THEN 1 ELSE 0) + Half) % Half,
        (a.lo - b.lo + Half) % Half)

LessU32(a, b) == a.hi < b.hi \/ (a.hi = b.hi /\ a.lo < b.lo)

\* math.MaxUint32
MaxUint32 == U32(Half - 1, Half - 1)

\* part_001:33
minVsockIOPort == U32(0, 12000)

\* part_001:151-153: the calls of nextVSockPort one Execute makes.
PortsPerExec == 3

\* The nil error.  Errors are messages: sequences of phrases.
Nil == <<>>

\* strings.Contains(err.Error(), phrase)
Contains(err, phrase) == \E i \in 1..Len(err) : err[i] = phrase

\* fmt.Errorf("error initializing io: %w", err)
WrapInitErr(err) == <<"error initializing io">> \o err

\* The error a connector reports when it cannot acquire its stream.
DialErr(p, side) == <<p, side, "dial failed">>

\* The error of an I/O call on a stream that has been closed: a vsock
\* connection reports "use of closed network connection", a file reports
\* "file already closed".  The exec command wires stdin as file -> vsock and
\* stdout/stderr as vsock -> file.
IsVsock(p, side) == (p = "stdin") = (side = "write")

ClosedErr(p, side) ==
    IF IsVsock(p, side)
    THEN <<p, side, "use of closed network connection">>
    ELSE <<p, side, "file already closed">>

\* An I/O failure that is no disconnect.
IOErr(p, side) == <<p, side, "input/output error">>

\* The bytes the read source of stream p produces: n bytes of its own.
Base(p) == CASE p = "stdin" -> 0 [] p = "stdout" -> 10 [] p = "stderr" -> 20

SourceBytes(p, n) == [i \in 1..n |-> Base(p) + i]

Min(a, b) == IF a < b THEN a ELSE b

\* timeoutAfterExit with no grace duration for any stream.
timeoutAfterExitZero(p) == 0

\* timeoutAfterExit of each proxy, as Start passes it (io.go:209, 215, 221).
timeoutAfterExit(p) == IF p = "stdin" THEN 0 ELSE defaultIOFlushTimeout

VARIABLES
    pairs,          \* the configured (non-nil) pairs of the ioConnectorSet
    content,        \* per stream, what its read source produces before EOF
    dialFail,       \* whether connectors may fail to acquire their stream
    faulty,         \* the pairs whose streams may fail with an I/O error of their own
    exits,          \* whether the process may exit during the relay
    closeFail,      \* whether the Close of a stream may return an error
    blocks,         \* whether a Read at the end of the content blocks (no EOF)
    callers,        \* the goroutines that call Close and IsOpen
    started,        \* Start has been called (and has returned)
    procCtxDone,    \* procCtx cancelled (the process exited)
    ctxDone,        \* the errgroup's derived ctx cancelled
    proxy,          \* per stream: the proxy goroutine and its channels
    watcher,        \* per stream: the exit watcher goroutine
    initErrG,       \* the errgroup of the init outcomes
    copyErrG,       \* the errgroup of the copy outcomes
    aggInit,        \* Start's initDone goroutine and channel
    aggCopy,        \* Start's copyDone goroutine and channel
    closed,         \* ioConnectorSet.closed
    closeMu,        \* ioConnectorSet.closeMu: 0 free, else the holder
    call,           \* per caller: position in Close / IsOpen, value read
    closeStarted,   \* some Close call has started
    closeReturned,  \* some Close call has returned
    cmd,            \* ExecCmd.Execute: its flags, position and exit status
    execCall,       \* the goroutine of Execute that makes the Exec call
    execs,          \* the goroutines that call nextVSockPort, three calls each
    calledBefore,   \* the calls of nextVSockPort that returned before the run
    vsockIOPortCount, \* ExecCmd.vsockIOPortCount, a uint32
    vsockPortMu,    \* ExecCmd.vsockPortMu: 0 free, else the holder
    portCall,       \* per caller: position in nextVSockPort, port, ports got
    issued,         \* the ports returned, in the order the mutex was released
    panicked        \* nextVSockPort has panicked: the process is gone

configVars == <<pairs, content, dialFail, faulty, exits, closeFail, blocks,
                callers>>

relayVars == <<started, procCtxDone, ctxDone, proxy, watcher,
               initErrG, copyErrG, aggInit, aggCopy>>

flagVars == <<closed, closeMu, call, closeStarted, closeReturned>>

cmdVars == <<cmd, execCall>>

portVars == <<execs, calledBefore, vsockIOPortCount, vsockPortMu, portCall,
              issued, panicked>>

vars == <<configVars, relayVars, flagVars, cmdVars, portVars>>

(***************************************************************************)
(* The state after NewIOConnectorProxy, before Start.                      *)
(***************************************************************************)
NoProxy ==
    [pc |-> "none",
     resultCh |-> [s \in Sides |-> "none"],   \* readerResultCh, writerResultCh
     result |-> [s \in Sides |-> "none"],     \* what each connector delivered
     stream |-> [s \in Sides |-> "nil"],      \* reader, writer
     ioInitErr |-> Nil,
     initDone |-> <<>>,                       \* the values buffered in initDone
     initClosed |-> FALSE,
     nInitSent |-> 0,                         \* sends made on initDone
     copyClosed |-> FALSE,                    \* close(copyDone) done
     ioCtxDone |-> FALSE,                     \* ioCancel() done
     rpos |-> 0,                              \* bytes the reader has produced
     buf |-> <<>>,                            \* chunk read, not yet written
     sink |-> <<>>,                           \* bytes the writer has received
     err |-> Nil,                             \* err of io.CopyBuffer
     closeErr |-> Nil,                        \* closeErr logged by logClose
     log |-> "none",                          \* how the copy error was logged
     didIO |-> FALSE,                         \* a Read or Write was called
     fault |-> FALSE]                         \* a Read or Write failed

NoWatcher == [pc |-> "none", elapsed |-> 0]

NoGroup == [wait |-> [p \in Streams |-> "none"],
            recv |-> [p \in Streams |-> Nil],
            err |-> Nil]

NoAgg == [pc |-> "none", val |-> Nil, delivered |-> <<>>, closed |-> FALSE]

NoCall == [pc |-> "idle", res |-> TRUE, after |-> FALSE]

NoCmd == [pc |-> "none", io |-> FALSE, tty |-> FALSE,
          startCall |-> "none",               \* the Start call and its result
          status |-> "none"]                  \* the ExitStatus returned

NoExecCall == [pc |-> "none", err |-> Nil]

NoPortCall == [pc |-> "idle", port |-> U32(0, 0), got |-> <<>>]

\* An ExecCmd on which nextVSockPort has returned n times, and the callers E.
PortState(E, n) ==
    /\ execs = E
    /\ calledBefore = n
    /\ vsockIOPortCount = n
    /\ vsockPortMu = 0
    /\ portCall = [c \in Callers |-> NoPortCall]
    /\ issued = <<>>
    /\ panicked = FALSE

InitState ==
    /\ started = FALSE
    /\ procCtxDone = FALSE
    /\ ctxDone = FALSE
    /\ proxy = [p \in Streams |-> NoProxy]
    /\ watcher = [p \in Streams |-> NoWatcher]
    /\ initErrG = NoGroup
    /\ copyErrG = NoGroup
    /\ aggInit = NoAgg
    /\ aggCopy = NoAgg
    /\ closed = FALSE
    /\ closeMu = 0
    /\ call = [c \in Callers |-> NoCall]
    /\ closeStarted = FALSE
    /\ closeReturned = FALSE
    /\ cmd = NoCmd
    /\ execCall = NoExecCall

\* One configuration of a run: the configured pairs P, sources of n bytes,
\* whether connectors may fail (df), the pairs F whose streams may fail,
\* whether the process may exit (ex), the callers cs of Close / IsOpen,
\* whether a Close
\* of a stream may return an error (cf), and whether the sources stay open
\* after their content, so that a Read blocks there instead of reporting EOF
\* (bl).
ScenarioOf(P, n, df, F, ex, cs, cf, bl) ==
    /\ pairs = P
    /\ content = [p \in Streams |-> SourceBytes(p, n)]
    /\ dialFail = df
    /\ faulty = F
    /\ exits = ex
    /\ callers = cs
    /\ closeFail = cf
    /\ blocks = bl
    /\ InitState
    /\ PortState({}, U32(0, 0))

\* A configuration in which every Close returns nil and every source ends,
\* and the streams of all pairs or of none may fail (f).
Scenario(P, n, df, f, ex, cs) ==
    ScenarioOf(P, n, df, IF f THEN Streams ELSE {}, ex, cs, FALSE, FALSE)

\* The flag and the relay together: Close and IsOpen called concurrently on a
\* set that relays nothing, and by one caller during the relay of one stream.
Init ==
    \/ Scenario({}, 0, FALSE, FALSE, TRUE, Callers)
    \/ Scenario({"stdout"}, 1, TRUE, TRUE, TRUE, {1})

\* One Stream Proxy, with everything that can happen to it.
InitPair ==
    \E p \in Streams, n \in 0..MaxContent, f \in BOOLEAN :
        Scenario({p}, n, TRUE, f, TRUE, {})

\* A whole Proxy Set: all three pairs relaying their content to the end;
\* any two pairs with failing connectors and failing streams; one pair.
InitSet ==
    \/ Scenario(Streams, MaxContent, FALSE, FALSE, FALSE, {})
    \/ \E p \in Streams : Scenario(Streams \ {p}, 0, TRUE, TRUE, FALSE, {})
    \/ \E p \in Streams : Scenario({p}, 1, TRUE, TRUE, TRUE, {})
    \/ Scenario({}, 0, FALSE, FALSE, TRUE, {})

\* The process exits while all three pairs relay and no source ends by
\* itself; and one pair with failing connectors and streams.
InitExit ==
    \/ Scenario(Streams, 0, FALSE, FALSE, TRUE, {})
    \/ Scenario({"stdout"}, 1, TRUE, TRUE, TRUE, {})

\* Two pairs whose connectors and streams may fail while the process stays
\* alive; and one pair with everything that can happen to it.
InitFail ==
    \/ Scenario({"stdin", "stdout"}, 0, TRUE, TRUE, FALSE, {})
    \/ Scenario({"stdout"}, 1, TRUE, TRUE, TRUE, {})

\* Two pairs with content whose connectors may fail and whose streams do
\* not, while the process stays alive; and one pair with everything.
InitSibling ==
    \/ Scenario({"stdin", "stdout"}, 1, TRUE, FALSE, FALSE, {})
    \/ Scenario({"stdout"}, 1, TRUE, TRUE, TRUE, {})

\* Runs in which a Close of a stream may return an error: one pair with
\* everything that can happen to it, and two pairs whose connectors may fail.
InitClose ==
    \/ \E p \in Streams : ScenarioOf({p}, 1, TRUE, Streams, TRUE, {}, TRUE, FALSE)
    \/ ScenarioOf({"stdin", "stdout"}, 0, TRUE, {}, FALSE, {}, TRUE, FALSE)

\* Runs in which the process exits: two pairs whose sources never end and
\* whose streams do not fail, so that a copy ends only by the close of a
\* stream; and one pair whose source ends and whose streams may fail.
\* The exec command with its I/O relay (part_001:193-207): three pairs, the
\* context of main that is never cancelled (main.go:21).  Either the dials
\* may fail and every source produces one byte and ends; or the sources stay
\* open without producing anything and the streams of stdout may fail.
InitExec ==
    \/ ScenarioOf(Streams, 1, TRUE, {}, FALSE, {}, FALSE, FALSE)
    \/ ScenarioOf(Streams, 0, FALSE, {"stdout"}, FALSE, {}, FALSE, TRUE)

\* The process stays alive and a copy may fail: two pairs whose connectors
\* and streams may fail and whose sources end, two pairs whose sources never
\* end and of which the streams of stdin may fail; and one pair with
\* everything.
InitCancel ==
    \/ InitFail
    \/ ScenarioOf({"stdin", "stdout"}, 0, FALSE, {"stdin"}, FALSE, {}, FALSE, TRUE)

InitTerm ==
    \/ ScenarioOf({"stdin", "stdout"}, 1, TRUE, {}, TRUE, {}, FALSE, TRUE)
    \/ \E p \in Streams : ScenarioOf({p}, 1, TRUE, Streams, TRUE, {}, FALSE, FALSE)

(***************************************************************************)
(* ioConnectorSet.Start (io.go:194-241).  For every configured pair,       *)
(* proxy() invokes both connectors and starts the proxy goroutine, and     *)
(* waitErrs adds one goroutine to each errgroup; then Start starts the two *)
(* aggregate goroutines and returns.  Start waits for nothing, so it is    *)
(* one step.                                                               *)
(***************************************************************************)
\* io.go:87-104 and 201-204: what proxy() and waitErrs set up for pair p.
SpawnProxy(px) ==
    [px EXCEPT !.pc = "select", !.resultCh = [s \in Sides |-> "pending"]]

\* Start that first waits for the process to exit.
StartAfterExit ==
    /\ ~started
    /\ procCtxDone
    /\ started' = TRUE
    /\ proxy' = [p \in Streams |-> IF p \in pairs THEN SpawnProxy(proxy[p]) ELSE proxy[p]]
    /\ initErrG' = [initErrG EXCEPT !.wait = [p \in Streams |-> IF p \in pairs THEN "wait" ELSE "none"]]
    /\ copyErrG' = [copyErrG EXCEPT !.wait = [p \in Streams |-> IF p \in pairs THEN "wait" ELSE "none"]]
    /\ aggInit' = [aggInit EXCEPT !.pc = "wait"]
    /\ aggCopy' = [aggCopy EXCEPT !.pc = "wait"]
    /\ UNCHANGED <<configVars, portVars, flagVars, cmdVars, procCtxDone, ctxDone, watcher>>

Start ==
    /\ ~started
    /\ started' = TRUE
    /\ proxy' = [p \in Streams |-> IF p \in pairs THEN SpawnProxy(proxy[p]) ELSE proxy[p]]
    /\ initErrG' = [initErrG EXCEPT !.wait = [p \in Streams |-> IF p \in pairs THEN "wait" ELSE "none"]]
    /\ copyErrG' = [copyErrG EXCEPT !.wait = [p \in Streams |-> IF p \in pairs THEN "wait" ELSE "none"]]
    /\ aggInit' = [aggInit EXCEPT !.pc = "wait"]
    /\ aggCopy' = [aggCopy EXCEPT !.pc = "wait"]
    /\ UNCHANGED <<configVars, portVars, flagVars, cmdVars, procCtxDone, ctxDone, watcher>>

(***************************************************************************)
(* A connector (IOConnector, io.go:42; vsock.go:14-30, file.go:41-55): its *)
(* acquisition ends and its one result waits in the result channel.        *)
(***************************************************************************)
ConnectorResult(p, side, ok) ==
    /\ proxy[p].resultCh[side] = "pending"
    /\ ok \/ dialFail
    /\ proxy' = [proxy EXCEPT ![p].resultCh[side] = IF ok THEN "ok" ELSE "err",
                              ![p].result[side] = IF ok THEN "ok" ELSE "err"]
    /\ UNCHANGED <<configVars, portVars, flagVars, cmdVars, started, procCtxDone, ctxDone,
                   watcher, initErrG, copyErrG, aggInit, aggCopy>>

(***************************************************************************)
(* The proxy goroutine, init phase (io.go:108-140).                        *)
(***************************************************************************)
\* LoopPc of a loop that ends with the first result received.
LoopPcFirstOnly(ch) ==
    IF ch["read"] /= "nil" /\ ch["write"] /= "nil" THEN "select" ELSE "closeInit"

\* The loop condition of io.go:114, on the two result channels.
LoopPc(ch) ==
    IF ch["read"] /= "nil" \/ ch["write"] /= "nil" THEN "select" ELSE "closeInit"

\* io.go:116-133: receive one result; an error is wrapped and will be sent.
ProxySelect(p, side) ==
    /\ proxy[p].pc = "select"
    /\ proxy[p].resultCh[side] \in {"ok", "err"}
    /\ LET ch == [proxy[p].resultCh EXCEPT ![side] = "nil"]
       IN IF proxy[p].resultCh[side] = "ok"
          THEN proxy' = [proxy EXCEPT ![p].resultCh = ch,
                                      ![p].stream[side] = "open",
                                      ![p].pc = LoopPc(ch)]
          ELSE proxy' = [proxy EXCEPT ![p].resultCh = ch,
                                      ![p].ioInitErr = WrapInitErr(DialErr(p, side)),
                                      ![p].pc = "sendInit"]
    /\ UNCHANGED <<configVars, portVars, flagVars, cmdVars, started, procCtxDone, ctxDone,
                   watcher, initErrG, copyErrG, aggInit, aggCopy>>

\* make(chan error, 2), io.go:93
initDoneCap == 2

\* ProxySendInit on a channel with room for one value less.
ProxySendInitNarrow(p) ==
    /\ proxy[p].pc = "sendInit"
    /\ Len(proxy[p].initDone) < initDoneCap - 1
    /\ proxy' = [proxy EXCEPT ![p].initDone = Append(@, proxy[p].ioInitErr),
                              ![p].nInitSent = @ + 1,
                              ![p].pc = LoopPc(proxy[p].resultCh)]
    /\ UNCHANGED <<configVars, portVars, flagVars, cmdVars, started, procCtxDone, ctxDone,
                   watcher, initErrG, copyErrG, aggInit, aggCopy>>

\* io.go:132: initDone <- ioInitErr
ProxySendInit(p) ==
    /\ proxy[p].pc = "sendInit"
    /\ Len(proxy[p].initDone) < initDoneCap
    /\ proxy' = [proxy EXCEPT ![p].initDone = Append(@, proxy[p].ioInitErr),
                              ![p].nInitSent = @ + 1,
                              ![p].pc = LoopPc(proxy[p].resultCh)]
    /\ UNCHANGED <<configVars, portVars, flagVars, cmdVars, started, procCtxDone, ctxDone,
                   watcher, initErrG, copyErrG, aggInit, aggCopy>>

\* AfterInitPc without the check of ioInitErr.
AfterInitPcAlwaysCopy(err) == "read"

\* io.go:137: the branch taken after close(initDone).
AfterInitPc(err) == IF err /= Nil THEN "failClose" ELSE "read"

\* ProxyCloseInit that leaves initDone open.
ProxyCloseInitSkip(p) ==
    /\ proxy[p].pc = "closeInit"
    /\ proxy' = [proxy EXCEPT ![p].pc = AfterInitPc(proxy[p].ioInitErr)]
    /\ watcher' = IF AfterInitPc(proxy[p].ioInitErr) = "read"
                  THEN [watcher EXCEPT ![p].pc = "wait"]
                  ELSE watcher
    /\ UNCHANGED <<configVars, portVars, flagVars, cmdVars, started, procCtxDone, ctxDone,
                   initErrG, copyErrG, aggInit, aggCopy>>

\* ProxyCloseInit whose watcher misses a ctx that is cancelled already.
ProxyCloseInitLate(p) ==
    /\ proxy[p].pc = "closeInit"
    /\ proxy' = [proxy EXCEPT ![p].initClosed = TRUE,
                              ![p].pc = AfterInitPc(proxy[p].ioInitErr)]
    /\ watcher' = IF AfterInitPc(proxy[p].ioInitErr) = "read" /\ ~ctxDone
                  THEN [watcher EXCEPT ![p].pc = "wait"]
                  ELSE watcher
    /\ UNCHANGED <<configVars, portVars, flagVars, cmdVars, started, procCtxDone, ctxDone,
                   initErrG, copyErrG, aggInit, aggCopy>>

\* io.go:136-152: close(initDone); on success the exit watcher is started.
ProxyCloseInit(p) ==
    /\ proxy[p].pc = "closeInit"
    /\ proxy' = [proxy EXCEPT ![p].initClosed = TRUE,
                              ![p].pc = AfterInitPc(proxy[p].ioInitErr)]
    /\ watcher' = IF AfterInitPc(proxy[p].ioInitErr) = "read"
                  THEN [watcher EXCEPT ![p].pc = "wait"]
                  ELSE watcher
    /\ UNCHANGED <<configVars, portVars, flagVars, cmdVars, started, procCtxDone, ctxDone,
                   initErrG, copyErrG, aggInit, aggCopy>>

\* logClose that closes nothing.
logCloseNone(streams) == streams

\* logClose (io.go:174-190): Close is called on every stream that is not nil.
\* A Close that returns an error has released its stream all the same (the
\* Close of a Go file or connection does); only what it returns differs.
logClose(streams) ==
    [s \in Sides |-> IF streams[s] = "nil" THEN "nil" ELSE "closed"]

\* ProxyFailClose that goes on to send the init error on copyDone.
ProxyFailCloseSend(p) ==
    /\ proxy[p].pc = "failClose"
    /\ proxy' = [proxy EXCEPT ![p].stream = logClose(@),
                              ![p].err = proxy[p].ioInitErr,
                              ![p].pc = "sendCopy"]
    /\ UNCHANGED <<configVars, portVars, flagVars, cmdVars, started, procCtxDone, ctxDone,
                   watcher, initErrG, copyErrG, aggInit, aggCopy>>

\* The error of a Close that fails.
CloseErr(p, side) == <<p, side, "close failed">>

\* The sets of streams whose Close may return an error in one logClose: any
\* set of the streams that are not nil, where a Close may fail at all.
CloseFailures(streams) ==
    IF closeFail THEN SUBSET {s \in Sides : streams[s] /= "nil"} ELSE {{}}

\* io.go:175-185: closeErr, the errors of the failed Closes appended in the
\* order of the streams (reader, writer).
AppendCloseErrs(p, failed) ==
    (IF "read" \in failed THEN CloseErr(p, "read") ELSE Nil)
        \o (IF "write" \in failed THEN CloseErr(p, "write") ELSE Nil)

\* io.go:187-189: closeErr is logged if it is not nil, and goes nowhere else.
LogCloseErr(old, closeErr) == IF closeErr /= Nil THEN closeErr ELSE old

\* io.go:138-139, then the deferred close(copyDone) follows.
ProxyFailClose(p) ==
    /\ proxy[p].pc = "failClose"
    /\ \E failed \in CloseFailures(proxy[p].stream) :
          proxy' = [proxy EXCEPT ![p].stream = logClose(@),
                                 ![p].closeErr = LogCloseErr(@, AppendCloseErrs(p, failed)),
                                 ![p].pc = "closeCopy"]
    /\ UNCHANGED <<configVars, portVars, flagVars, cmdVars, started, procCtxDone, ctxDone,
                   watcher, initErrG, copyErrG, aggInit, aggCopy>>

(***************************************************************************)
(* The proxy goroutine, copy phase (io.go:154-169).  io.CopyBuffer reads a *)
(* chunk of at most defaultBufferSize bytes and writes it, until a Read    *)
(* reports EOF or a Read or Write fails.  A call on a stream that has been *)
(* closed fails with ClosedErr.                                            *)
(***************************************************************************)
\* io.go:160-161
IsBenign(err) ==
    \/ Contains(err, "use of closed network connection")
    \/ Contains(err, "file already closed")

\* io.go:159-165: the level the terminating error is logged at.
LogLevel(err) ==
    IF err = Nil THEN "none" ELSE IF IsBenign(err) THEN "info" ELSE "error"

\* io.go:159-167: copyDone <- err follows both branches of the classification.
AfterCopyPc(err) == IF err /= Nil THEN "sendCopy" ELSE "finalClose"

CopyEnd(px, err) ==
    [px EXCEPT !.err = err, !.log = LogLevel(err), !.pc = AfterCopyPc(err),
               !.didIO = TRUE, !.fault = (err /= Nil)]

\* The chunk a Read of n bytes returns.
ReadChunk(p, n) == SubSeq(content[p], proxy[p].rpos + 1, proxy[p].rpos + n)

\* WriteChunk that drops the last byte of the chunk.
WriteChunkShort(snk, chunk) == snk \o SubSeq(chunk, 1, Len(chunk) - 1)

\* What the writer holds after a Write of chunk.
WriteChunk(snk, chunk) == snk \o chunk

CopyRead(p) ==
    /\ proxy[p].pc = "read"
    /\ \/ /\ proxy[p].stream["read"] = "closed"
          /\ proxy' = [proxy EXCEPT ![p] = CopyEnd(@, ClosedErr(p, "read"))]
       \/ /\ proxy[p].stream["read"] = "open"
          /\ \E n \in 1..Min(defaultBufferSize, Len(content[p]) - proxy[p].rpos) :
                proxy' = [proxy EXCEPT ![p].buf = ReadChunk(p, n),
                                       ![p].rpos = @ + n,
                                       ![p].didIO = TRUE,
                                       ![p].pc = "write"]
       \/ /\ proxy[p].stream["read"] = "open"
          /\ proxy[p].rpos = Len(content[p])
          /\ ~blocks
          /\ proxy' = [proxy EXCEPT ![p] = CopyEnd(@, Nil)]
       \/ /\ proxy[p].stream["read"] = "open"
          /\ p \in faulty
          /\ proxy' = [proxy EXCEPT ![p] = CopyEnd(@, IOErr(p, "read"))]
    /\ UNCHANGED <<configVars, portVars, flagVars, cmdVars, started, procCtxDone, ctxDone,
                   watcher, initErrG, copyErrG, aggInit, aggCopy>>

CopyWrite(p) ==
    /\ proxy[p].pc = "write"
    /\ \/ /\ proxy[p].stream["write"] = "closed"
          /\ proxy' = [proxy EXCEPT ![p] = CopyEnd(@, ClosedErr(p, "write"))]
       \/ /\ proxy[p].stream["write"] = "open"
          /\ proxy' = [proxy EXCEPT ![p].sink = WriteChunk(@, proxy[p].buf),
                                    ![p].buf = <<>>,
                                    ![p].pc = "read"]
       \/ /\ proxy[p].stream["write"] = "open"
          /\ p \in faulty
          /\ proxy' = [proxy EXCEPT ![p] = CopyEnd(@, IOErr(p, "write"))]
    /\ UNCHANGED <<configVars, portVars, flagVars, cmdVars, started, procCtxDone, ctxDone,
                   watcher, initErrG, copyErrG, aggInit, aggCopy>>

\* io.go:166: copyDone is unbuffered, the send meets the receive of the
\* copyErrG goroutine of this proxy (io.go:203).
ProxySendCopy(p) ==
    /\ proxy[p].pc = "sendCopy"
    /\ copyErrG.wait[p] = "wait"
    /\ copyErrG' = [copyErrG EXCEPT !.wait[p] = "got", !.recv[p] = proxy[p].err]
    /\ proxy' = [proxy EXCEPT ![p].pc = "finalClose"]
    /\ UNCHANGED <<configVars, portVars, flagVars, cmdVars, started, procCtxDone, ctxDone,
                   watcher, initErrG, aggInit, aggCopy>>

\* ProxyFinalClose that reports the error of a failed Close on copyDone when
\* the copy itself had ended without one.
ProxyFinalCloseReport(p) ==
    /\ proxy[p].pc = "finalClose"
    /\ \E failed \in CloseFailures(proxy[p].stream) :
          LET closeErr == AppendCloseErrs(p, failed)
          IN proxy' = [proxy EXCEPT
                         ![p].stream = logClose(@),
                         ![p].closeErr = LogCloseErr(@, closeErr),
                         ![p].err = IF @ = Nil THEN closeErr ELSE @,
                         ![p].pc = IF proxy[p].err = Nil /\ closeErr /= Nil
                                   THEN "sendCopy" ELSE "closeCopy"]
    /\ UNCHANGED <<configVars, portVars, flagVars, cmdVars, started, procCtxDone, ctxDone,
                   watcher, initErrG, copyErrG, aggInit, aggCopy>>

\* ProxyFinalClose without the deferred logClose.
ProxyFinalCloseSkip(p) ==
    /\ proxy[p].pc = "finalClose"
    /\ proxy' = [proxy EXCEPT ![p].pc = "closeCopy"]
    /\ UNCHANGED <<configVars, portVars, flagVars, cmdVars, started, procCtxDone, ctxDone,
                   watcher, initErrG, copyErrG, aggInit, aggCopy>>

\* io.go:168: the deferred logClose runs first when the goroutine returns.
ProxyFinalClose(p) ==
    /\ proxy[p].pc = "finalClose"
    /\ \E failed \in CloseFailures(proxy[p].stream) :
          proxy' = [proxy EXCEPT ![p].stream = logClose(@),
                                 ![p].closeErr = LogCloseErr(@, AppendCloseErrs(p, failed)),
                                 ![p].pc = "closeCopy"]
    /\ UNCHANGED <<configVars, portVars, flagVars, cmdVars, started, procCtxDone, ctxDone,
                   watcher, initErrG, copyErrG, aggInit, aggCopy>>

\* io.go:106: defer close(copyDone)
ProxyCloseCopy(p) ==
    /\ proxy[p].pc = "closeCopy"
    /\ proxy' = [proxy EXCEPT ![p].copyClosed = TRUE, ![p].pc = "cancel"]
    /\ UNCHANGED <<configVars, portVars, flagVars, cmdVars, started, procCtxDone, ctxDone,
                   watcher, initErrG, copyErrG, aggInit, aggCopy>>

\* io.go:105: defer ioCancel()
ProxyCancel(p) ==
    /\ proxy[p].pc = "cancel"
    /\ proxy' = [proxy EXCEPT ![p].ioCtxDone = TRUE, ![p].pc = "done"]
    /\ UNCHANGED <<configVars, portVars, flagVars, cmdVars, started, procCtxDone, ctxDone,
                   watcher, initErrG, copyErrG, aggInit, aggCopy>>

(***************************************************************************)
(* The exit watcher (io.go:147-152) and the passing of time.               *)
(***************************************************************************)
\* io.go:148-149: <-ctx.Done() returns and the timer is started.
WatcherWake(p) ==
    /\ watcher[p].pc = "wait"
    /\ ctxDone
    /\ watcher' = [watcher EXCEPT ![p].pc = "timer", ![p].elapsed = 0]
    /\ UNCHANGED <<configVars, portVars, flagVars, cmdVars, started, procCtxDone, ctxDone,
                   proxy, initErrG, copyErrG, aggInit, aggCopy>>

\* WatcherFire that reports the Close of a closed stream as a copy error.
WatcherFireReport(p) ==
    /\ watcher[p].pc = "timer"
    /\ watcher[p].elapsed >= timeoutAfterExit(p)
    /\ watcher' = [watcher EXCEPT ![p].pc = "fired"]
    /\ \E failed \in CloseFailures(proxy[p].stream) :
          proxy' = [proxy EXCEPT ![p].stream = logClose(@),
                                 ![p].closeErr = LogCloseErr(@, AppendCloseErrs(p, failed))]
    /\ copyErrG' = IF \E side \in Sides : proxy[p].stream[side] = "closed"
                   THEN [copyErrG EXCEPT !.err = ClosedErr(p, "read")]
                   ELSE copyErrG
    /\ UNCHANGED <<configVars, portVars, flagVars, cmdVars, started, procCtxDone, ctxDone,
                   initErrG, aggInit, aggCopy>>

\* WatcherFire that closes the streams of every proxy.
WatcherFireAll(p) ==
    /\ watcher[p].pc = "timer"
    /\ watcher[p].elapsed >= timeoutAfterExit(p)
    /\ watcher' = [watcher EXCEPT ![p].pc = "fired"]
    /\ proxy' = [q \in Streams |-> [proxy[q] EXCEPT !.stream = logClose(@)]]
    /\ UNCHANGED <<configVars, portVars, flagVars, cmdVars, started, procCtxDone, ctxDone,
                   initErrG, copyErrG, aggInit, aggCopy>>

\* WatcherFire whose function closes nothing.
WatcherFireNoClose(p) ==
    /\ watcher[p].pc = "timer"
    /\ watcher[p].elapsed >= timeoutAfterExit(p)
    /\ watcher' = [watcher EXCEPT ![p].pc = "fired"]
    /\ UNCHANGED <<configVars, portVars, flagVars, cmdVars, started, procCtxDone, ctxDone,
                   proxy, initErrG, copyErrG, aggInit, aggCopy>>

\* io.go:149-151: the timer has run timeoutAfterExit, its function closes
\* both streams.
WatcherFire(p) ==
    /\ watcher[p].pc = "timer"
    /\ watcher[p].elapsed >= timeoutAfterExit(p)
    /\ watcher' = [watcher EXCEPT ![p].pc = "fired"]
    /\ \E failed \in CloseFailures(proxy[p].stream) :
          proxy' = [proxy EXCEPT ![p].stream = logClose(@),
                                 ![p].closeErr = LogCloseErr(@, AppendCloseErrs(p, failed))]
    /\ UNCHANGED <<configVars, portVars, flagVars, cmdVars, started, procCtxDone, ctxDone,
                   initErrG, copyErrG, aggInit, aggCopy>>

\* The running timers that have not run their full time yet.
Running == {p \in Streams : /\ watcher[p].pc = "timer"
                            /\ watcher[p].elapsed < timeoutAfterExit(p)}

\* The seconds left until the timer of p expires.
Remaining(p) == timeoutAfterExit(p) - watcher[p].elapsed

\* Time passes, up to the moment the next running timer expires: every
\* running timer advances by the same number of seconds.
Tick ==
    /\ Running /= {}
    /\ LET d == CHOOSE d \in {Remaining(p) : p \in Running} :
                    \A q \in Running : d <= Remaining(q)
       IN watcher' = [p \in Streams |->
                        IF p \in Running
                        THEN [watcher[p] EXCEPT !.elapsed = @ + d]
                        ELSE watcher[p]]
    /\ UNCHANGED <<configVars, portVars, flagVars, cmdVars, started, procCtxDone, ctxDone,
                   proxy, initErrG, copyErrG, aggInit, aggCopy>>

\* ProcExit with the ioCtx of every proxy derived from procCtx.
ProcExitCancelsIO ==
    /\ exits
    /\ ~procCtxDone
    /\ procCtxDone' = TRUE
    /\ ctxDone' = TRUE
    /\ proxy' = [p \in Streams |-> [proxy[p] EXCEPT !.ioCtxDone = TRUE]]
    /\ UNCHANGED <<configVars, portVars, flagVars, cmdVars, started, watcher,
                   initErrG, copyErrG, aggInit, aggCopy>>

\* The process exits: procCtx is cancelled, and with it the derived ctx.
ProcExit ==
    /\ exits
    /\ ~procCtxDone
    /\ procCtxDone' = TRUE
    /\ ctxDone' = TRUE
    /\ UNCHANGED <<configVars, portVars, flagVars, cmdVars, started, proxy, watcher,
                   initErrG, copyErrG, aggInit, aggCopy>>

(***************************************************************************)
(* The errgroup goroutines of waitErrs (io.go:201-204) and the two         *)
(* aggregate goroutines of Start (io.go:228-238).                          *)
(***************************************************************************)
\* FirstErr that records no error at all.
NoErr(old, err) == old

\* FirstErr that keeps the last error instead.
LastErr(old, err) == IF err = Nil THEN old ELSE err

\* errgroup keeps the first error a function returns (errOnce).
FirstErr(old, err) == IF old = Nil THEN err ELSE old

\* InitErrRecv of a group whose first error cancels ctx.
InitErrRecvCancel(p) ==
    /\ initErrG.wait[p] = "wait"
    /\ proxy[p].initDone /= <<>> \/ proxy[p].initClosed
    /\ LET v == IF proxy[p].initDone /= <<>> THEN Head(proxy[p].initDone) ELSE Nil
       IN /\ initErrG' = [initErrG EXCEPT !.wait[p] = "done", !.recv[p] = v,
                                          !.err = FirstErr(@, v)]
          /\ ctxDone' = (ctxDone \/ v /= Nil)
    /\ proxy' = [proxy EXCEPT ![p].initDone = IF @ /= <<>> THEN Tail(@) ELSE @]
    /\ UNCHANGED <<configVars, portVars, flagVars, cmdVars, started, procCtxDone,
                   watcher, copyErrG, aggInit, aggCopy>>

\* io.go:202: return <-initErrCh.  A receive takes the oldest buffered
\* value, or nil from the closed and empty channel.
InitErrRecv(p) ==
    /\ initErrG.wait[p] = "wait"
    /\ proxy[p].initDone /= <<>> \/ proxy[p].initClosed
    /\ LET v == IF proxy[p].initDone /= <<>> THEN Head(proxy[p].initDone) ELSE Nil
       IN initErrG' = [initErrG EXCEPT !.wait[p] = "done", !.recv[p] = v,
                                       !.err = FirstErr(@, v)]
    /\ proxy' = [proxy EXCEPT ![p].initDone = IF @ /= <<>> THEN Tail(@) ELSE @]
    /\ UNCHANGED <<configVars, portVars, flagVars, cmdVars, started, procCtxDone, ctxDone,
                   watcher, copyErrG, aggInit, aggCopy>>

\* io.go:203: return <-copyErrCh, on the closed channel: nil.
CopyErrRecvClosed(p) ==
    /\ copyErrG.wait[p] = "wait"
    /\ proxy[p].copyClosed
    /\ copyErrG' = [copyErrG EXCEPT !.wait[p] = "done"]
    /\ UNCHANGED <<configVars, portVars, flagVars, cmdVars, started, procCtxDone, ctxDone,
                   proxy, watcher, initErrG, aggInit, aggCopy>>

\* CopyErrReturn of a group without a context to cancel.
CopyErrReturnNoCancel(p) ==
    /\ copyErrG.wait[p] = "got"
    /\ copyErrG' = [copyErrG EXCEPT !.wait[p] = "done",
                                    !.err = FirstErr(@, copyErrG.recv[p])]
    /\ UNCHANGED <<configVars, portVars, flagVars, cmdVars, started, procCtxDone, ctxDone,
                   proxy, watcher, initErrG, aggInit, aggCopy>>

\* io.go:203 after ProxySendCopy: the function returns the error it
\* received; the group records the first one and cancels ctx (io.go:197-199).
CopyErrReturn(p) ==
    /\ copyErrG.wait[p] = "got"
    /\ copyErrG' = [copyErrG EXCEPT !.wait[p] = "done",
                                    !.err = FirstErr(@, copyErrG.recv[p])]
    /\ ctxDone' = TRUE
    /\ UNCHANGED <<configVars, portVars, flagVars, cmdVars, started, procCtxDone,
                   proxy, watcher, initErrG, aggInit, aggCopy>>

\* GroupDone that returns as soon as one goroutine has returned.
GroupDoneAny(g) == \E p \in pairs : g.wait[p] = "done"

\* GroupDone that counts three goroutines whatever pairs are configured.
GroupDoneThree(g) == \A p \in Streams : g.wait[p] = "done"

\* Wait returns once every goroutine of the group has returned.
GroupDone(g) == \A p \in pairs : g.wait[p] = "done"

\* io.go:231: initErrG.Wait() returns
AggInitWait ==
    /\ aggInit.pc = "wait"
    /\ GroupDone(initErrG)
    /\ aggInit' = [aggInit EXCEPT !.pc = "send", !.val = initErrG.err]
    /\ UNCHANGED <<configVars, portVars, flagVars, cmdVars, started, procCtxDone, ctxDone,
                   proxy, watcher, initErrG, copyErrG, aggCopy>>

\* io.go:231: initDone <- ..., unbuffered: the caller of Start receives it.
AggInitSend ==
    /\ aggInit.pc = "send"
    /\ aggInit' = [aggInit EXCEPT !.pc = "close", !.delivered = Append(@, aggInit.val)]
    /\ UNCHANGED <<configVars, portVars, flagVars, cmdVars, started, procCtxDone, ctxDone,
                   proxy, watcher, initErrG, copyErrG, aggCopy>>

\* io.go:230: defer close(initDone)
AggInitClose ==
    /\ aggInit.pc = "close"
    /\ aggInit' = [aggInit EXCEPT !.pc = "done", !.closed = TRUE]
    /\ UNCHANGED <<configVars, portVars, flagVars, cmdVars, started, procCtxDone, ctxDone,
                   proxy, watcher, initErrG, copyErrG, aggCopy>>

\* io.go:237: copyErrG.Wait() returns; Wait of a group made by WithContext
\* cancels ctx.
AggCopyWait ==
    /\ aggCopy.pc = "wait"
    /\ GroupDone(copyErrG)
    /\ aggCopy' = [aggCopy EXCEPT !.pc = "send", !.val = copyErrG.err]
    /\ ctxDone' = TRUE
    /\ UNCHANGED <<configVars, portVars, flagVars, cmdVars, started, procCtxDone,
                   proxy, watcher, initErrG, copyErrG, aggInit>>

\* io.go:237: copyDone <- ..., unbuffered: the caller of Start receives it.
AggCopySend ==
    /\ aggCopy.pc = "send"
    /\ aggCopy' = [aggCopy EXCEPT !.pc = "close", !.delivered = Append(@, aggCopy.val)]
    /\ UNCHANGED <<configVars, portVars, flagVars, cmdVars, started, procCtxDone, ctxDone,
                   proxy, watcher, initErrG, copyErrG, aggInit>>

\* io.go:236: defer close(copyDone)
AggCopyClose ==
    /\ aggCopy.pc = "close"
    /\ aggCopy' = [aggCopy EXCEPT !.pc = "done", !.closed = TRUE]
    /\ UNCHANGED <<configVars, portVars, flagVars, cmdVars, started, procCtxDone, ctxDone,
                   proxy, watcher, initErrG, copyErrG, aggInit>>

(***************************************************************************)
(* Close and IsOpen (io.go:73-85), called from any goroutine at any time.  *)
(***************************************************************************)
CallClose(c) ==
    /\ c \in callers
    /\ call[c].pc = "idle"
    /\ call' = [call EXCEPT ![c].pc = "closeLock"]
    /\ closeStarted' = TRUE
    /\ UNCHANGED <<configVars, portVars, relayVars, cmdVars, closed, closeMu, closeReturned>>

\* io.go:74
CloseLock(c) ==
    /\ call[c].pc = "closeLock"
    /\ closeMu = 0
    /\ closeMu' = c
    /\ call' = [call EXCEPT ![c].pc = "closeSet"]
    /\ UNCHANGED <<configVars, portVars, relayVars, cmdVars, closed, closeStarted, closeReturned>>

\* ClosedValue that toggles the flag.
ClosedValueToggle(old) == ~old

\* io.go:77: the value Close gives the flag.
ClosedValue(old) == TRUE

\* CloseSet that also cancels the context of the relay.
CloseSetAndCancel(c) ==
    /\ call[c].pc = "closeSet"
    /\ closed' = TRUE
    /\ ctxDone' = TRUE
    /\ call' = [call EXCEPT ![c].pc = "closeRet"]
    /\ UNCHANGED <<configVars, portVars, cmdVars, started, procCtxDone, proxy, watcher, initErrG,
                   copyErrG, aggInit, aggCopy, closeMu, closeStarted,
                   closeReturned>>

\* io.go:77
CloseSet(c) ==
    /\ call[c].pc = "closeSet"
    /\ closed' = ClosedValue(closed)
    /\ call' = [call EXCEPT ![c].pc = "closeRet"]
    /\ UNCHANGED <<configVars, portVars, relayVars, cmdVars, closeMu, closeStarted, closeReturned>>

\* io.go:75: the deferred Unlock, and Close returns.
CloseRet(c) ==
    /\ call[c].pc = "closeRet"
    /\ closeMu' = 0
    /\ call' = [call EXCEPT ![c].pc = "idle"]
    /\ closeReturned' = TRUE
    /\ UNCHANGED <<configVars, portVars, relayVars, cmdVars, closed, closeStarted>>

CallIsOpen(c) ==
    /\ c \in callers
    /\ call[c].pc = "idle"
    /\ call' = [call EXCEPT ![c].pc = "openLock", ![c].after = closeReturned]
    /\ UNCHANGED <<configVars, portVars, relayVars, cmdVars, closed, closeMu, closeStarted,
                   closeReturned>>

\* io.go:81
OpenLock(c) ==
    /\ call[c].pc = "openLock"
    /\ closeMu = 0
    /\ closeMu' = c
    /\ call' = [call EXCEPT ![c].pc = "openRead"]
    /\ UNCHANGED <<configVars, portVars, relayVars, cmdVars, closed, closeStarted, closeReturned>>

\* io.go:84: the value of !closed
OpenRead(c) ==
    /\ call[c].pc = "openRead"
    /\ call' = [call EXCEPT ![c].pc = "openRet", ![c].res = ~closed]
    /\ UNCHANGED <<configVars, portVars, relayVars, cmdVars, closed, closeMu, closeStarted,
                   closeReturned>>

\* io.go:82: the deferred Unlock, and IsOpen returns call[c].res.
OpenRet(c) ==
    /\ call[c].pc = "openRet"
    /\ closeMu' = 0
    /\ call' = [call EXCEPT ![c] = NoCall]
    /\ UNCHANGED <<configVars, portVars, relayVars, cmdVars, closed, closeStarted, closeReturned>>

(***************************************************************************)
(* ExecCmd.Execute (part_001:93-281), from the Exec call on.               *)
(***************************************************************************)
\* The error of a remote call that fails.
CallErr(method) == <<method, "call failed">>

\* Execute has not returned: main exits the process when it does (main.go:22).
ExecRunning == cmd.pc /= "returned"

\* subcommands.ExitFailure is returned.
ReturnFailure(c) == [c EXCEPT !.pc = "returned", !.status = "ExitFailure"]

\* part_001:182-191: the goroutine of the Exec call is started.  The flag
\* -io is read at part_001:193.
ExecuteBegin(io) ==
    /\ cmd.pc = "none"
    /\ cmd' = [cmd EXCEPT !.io = io, !.status = "running",
                          !.pc = IF io THEN "proxy" ELSE "recvExec"]
    /\ execCall' = [execCall EXCEPT !.pc = "calling"]
    /\ UNCHANGED <<configVars, portVars, relayVars, flagVars>>

\* part_001:186: client.Call of Exec returns.
ExecCallReturn(ok) ==
    /\ ExecRunning
    /\ execCall.pc = "calling"
    /\ execCall' = [pc |-> "send", err |-> IF ok THEN Nil ELSE CallErr("Exec")]
    /\ UNCHANGED <<configVars, portVars, relayVars, flagVars, cmd>>

\* The connectors of Execute (part_001:194-206).  A FileConnector has put
\* its file into its buffered channel when it returns (file.go:41-55); a
\* VSockDialConnector dials in a goroutine of its own (vsock.go:14-30).
ExecSpawnProxy(p, px) ==
    [px EXCEPT !.pc = "select",
               !.resultCh = [s \in Sides |-> IF IsVsock(p, s) THEN "pending" ELSE "ok"],
               !.result = [s \in Sides |-> IF IsVsock(p, s) THEN "none" ELSE "ok"]]

\* part_001:193-211: the three pairs are built and proxy.Start is called
\* (io.go:194-241).
ExecStart ==
    /\ cmd.pc = "proxy"
    /\ pairs = Streams
    /\ ~started
    /\ started' = TRUE
    /\ proxy' = [p \in Streams |-> ExecSpawnProxy(p, proxy[p])]
    /\ initErrG' = [initErrG EXCEPT !.wait = [p \in Streams |-> "wait"]]
    /\ copyErrG' = [copyErrG EXCEPT !.wait = [p \in Streams |-> "wait"]]
    /\ aggInit' = [aggInit EXCEPT !.pc = "wait"]
    /\ aggCopy' = [aggCopy EXCEPT !.pc = "wait"]
    /\ UNCHANGED <<configVars, portVars, flagVars, cmdVars, procCtxDone, ctxDone, watcher>>

\* The dial of a vsock connector ends (vsock.go:21-25).
ExecConnectorResult(p, side, ok) ==
    /\ ExecRunning
    /\ IsVsock(p, side)
    /\ ConnectorResult(p, side, ok)

\* AfterInitCmd that goes on whatever <-initDone delivered.
AfterInitCmdIgnore(c, err) == [c EXCEPT !.pc = "recvExec"]

\* part_001:216-219: the position of Execute after err := <-initDone.
AfterInitCmd(c, err) ==
    IF err /= Nil THEN ReturnFailure(c) ELSE [c EXCEPT !.pc = "recvExec"]

\* part_001:215-219: err := <-initDone meets the send of io.go:231.
CmdRecvInit ==
    /\ cmd.pc = "proxy"
    /\ started
    /\ aggInit.pc = "send"
    /\ aggInit' = [aggInit EXCEPT !.pc = "close", !.delivered = Append(@, aggInit.val)]
    /\ cmd' = AfterInitCmd(cmd, aggInit.val)
    /\ UNCHANGED <<configVars, portVars, flagVars, execCall, started, procCtxDone, ctxDone,
                   proxy, watcher, initErrG, copyErrG, aggCopy>>

\* part_001:224-229: err := <-execCallError meets the send of part_001:187.
CmdRecvExec ==
    /\ cmd.pc = "recvExec"
    /\ execCall.pc = "send"
    /\ execCall' = [execCall EXCEPT !.pc = "done"]
    /\ cmd' = IF execCall.err /= Nil THEN ReturnFailure(cmd)
                                     ELSE [cmd EXCEPT !.pc = "tty"]
    /\ UNCHANGED <<configVars, portVars, relayVars, flagVars>>

\* part_001:233-248: the flag -tty is read; with it the terminal is made
\* raw, which can fail.
CmdMakeRaw(tty, ok) ==
    /\ cmd.pc = "tty"
    /\ ok \/ tty
    /\ cmd' = IF ok THEN [cmd EXCEPT !.tty = tty, !.pc = "start"]
                    ELSE [ReturnFailure(cmd) EXCEPT !.tty = tty]
    /\ UNCHANGED <<configVars, portVars, relayVars, flagVars, execCall>>

\* part_001:250-264: client.Call of Start and its result.
CmdStartCall(ok) ==
    /\ cmd.pc = "start"
    /\ cmd' = IF ~ok
              THEN [ReturnFailure(cmd) EXCEPT !.startCall = "err"]
              ELSE IF cmd.io
                   THEN [cmd EXCEPT !.startCall = "ok", !.pc = "recvCopy"]
                   ELSE [cmd EXCEPT !.startCall = "ok", !.pc = "returned",
                                    !.status = "ExitSuccess"]
    /\ UNCHANGED <<configVars, portVars, relayVars, flagVars, execCall>>

\* part_001:272-280: err = <-copyDone meets the send of io.go:237.
CmdRecvCopy ==
    /\ cmd.pc = "recvCopy"
    /\ aggCopy.pc = "send"
    /\ aggCopy' = [aggCopy EXCEPT !.pc = "close", !.delivered = Append(@, aggCopy.val)]
    /\ cmd' = IF aggCopy.val /= Nil
              THEN ReturnFailure(cmd)
              ELSE [cmd EXCEPT !.pc = "returned", !.status = "ExitSuccess"]
    /\ UNCHANGED <<configVars, portVars, flagVars, execCall, started, procCtxDone, ctxDone,
                   proxy, watcher, initErrG, copyErrG, aggInit>>

(***************************************************************************)
(* ExecCmd.nextVSockPort (part_001:54-68).  Execute calls it three times   *)
(* in a row, for the ports of stdin, stdout and stderr (part_001:151-153). *)
(***************************************************************************)
\* The counts an ExecCmd starts a run with: a new one, and those from which
\* the port reaches the end of its lower half or of the uint32 within the
\* calls of one Execute.
StartCounts ==
    {U32(0, 0)} \cup
    {SubU32(SubU32(top, minVsockIOPort), U32(0, d)) :
        top \in {MaxUint32, U32(0, Half - 1)}, d \in 0..PortsPerExec}

\* nextVSockPortLock on a mutex that excludes no one.
nextVSockPortLockFree(c) ==
    /\ ~panicked
    /\ c \in execs
    /\ portCall[c].pc = "idle"
    /\ Len(portCall[c].got) < PortsPerExec
    /\ vsockPortMu' = c
    /\ portCall' = [portCall EXCEPT ![c].pc = "locked"]
    /\ UNCHANGED <<configVars, relayVars, flagVars, cmdVars, execs, calledBefore,
                   vsockIOPortCount, issued, panicked>>

\* part_001:55: s.vsockPortMu.Lock(), by a caller with calls left to make.
nextVSockPortLock(c) ==
    /\ ~panicked
    /\ c \in execs
    /\ portCall[c].pc = "idle"
    /\ Len(portCall[c].got) < PortsPerExec
    /\ vsockPortMu = 0
    /\ vsockPortMu' = c
    /\ portCall' = [portCall EXCEPT ![c].pc = "locked"]
    /\ UNCHANGED <<configVars, relayVars, flagVars, cmdVars, execs, calledBefore,
                   vsockIOPortCount, issued, panicked>>

\* part_001:58-64: port := minVsockIOPort + s.vsockIOPortCount, and the panic
\* if port == math.MaxUint32; the deferred Unlock runs as the panic unwinds.
nextVSockPortAdd(c) ==
    /\ ~panicked
    /\ portCall[c].pc = "locked"
    /\ LET port == AddU32(minVsockIOPort, vsockIOPortCount)
       IN IF port = MaxUint32
          THEN /\ panicked' = TRUE
               /\ vsockPortMu' = 0
               /\ portCall' = [portCall EXCEPT ![c].pc = "panic", ![c].port = port]
          ELSE /\ portCall' = [portCall EXCEPT ![c].pc = "incr", ![c].port = port]
               /\ UNCHANGED <<vsockPortMu, panicked>>
    /\ UNCHANGED <<configVars, relayVars, flagVars, cmdVars, execs, calledBefore,
                   vsockIOPortCount, issued>>

\* part_001:66: s.vsockIOPortCount++
nextVSockPortIncr(c) ==
    /\ ~panicked
    /\ portCall[c].pc = "incr"
    /\ vsockIOPortCount' = AddU32(vsockIOPortCount, U32(0, 1))
    /\ portCall' = [portCall EXCEPT ![c].pc = "return"]
    /\ UNCHANGED <<configVars, relayVars, flagVars, cmdVars, execs, calledBefore,
                   vsockPortMu, issued, panicked>>

\* part_001:67, 56: return port, and the deferred Unlock.
nextVSockPortReturn(c) ==
    /\ ~panicked
    /\ portCall[c].pc = "return"
    /\ vsockPortMu' = 0
    /\ portCall' = [portCall EXCEPT ![c].pc = "idle",
                                    ![c].got = Append(@, portCall[c].port)]
    /\ issued' = Append(issued, portCall[c].port)
    /\ UNCHANGED <<configVars, relayVars, flagVars, cmdVars, execs, calledBefore,
                   vsockIOPortCount, panicked>>

(***************************************************************************)
(* The specifications.                                                     *)
(***************************************************************************)
NextRelay ==
    \/ Start
    \/ \E p \in Streams, side \in Sides, ok \in BOOLEAN : ConnectorResult(p, side, ok)
    \/ \E p \in Streams, side \in Sides : ProxySelect(p, side)
    \/ \E p \in Streams : ProxySendInit(p)
    \/ \E p \in Streams : ProxyCloseInit(p)
    \/ \E p \in Streams : ProxyFailClose(p)
    \/ \E p \in Streams : CopyRead(p)
    \/ \E p \in Streams : CopyWrite(p)
    \/ \E p \in Streams : ProxySendCopy(p)
    \/ \E p \in Streams : ProxyFinalClose(p)
    \/ \E p \in Streams : ProxyCloseCopy(p)
    \/ \E p \in Streams : ProxyCancel(p)
    \/ \E p \in Streams : WatcherWake(p)
    \/ \E p \in Streams : WatcherFire(p)
    \/ Tick
    \/ ProcExit
    \/ \E p \in Streams : InitErrRecv(p)
    \/ \E p \in Streams : CopyErrRecvClosed(p)
    \/ \E p \in Streams : CopyErrReturn(p)
    \/ AggInitWait
    \/ AggInitSend
    \/ AggInitClose
    \/ AggCopyWait
    \/ AggCopySend
    \/ AggCopyClose

NextFlag ==
    \/ \E c \in Callers : CallClose(c)
    \/ \E c \in Callers : CloseLock(c)
    \/ \E c \in Callers : CloseSet(c)
    \/ \E c \in Callers : CloseRet(c)
    \/ \E c \in Callers : CallIsOpen(c)
    \/ \E c \in Callers : OpenLock(c)
    \/ \E c \in Callers : OpenRead(c)
    \/ \E c \in Callers : OpenRet(c)

Next == NextRelay \/ NextFlag

\* Execute and the goroutines it starts, until Execute returns.  The close
\* of the aggregate copyDone (io.go:236) follows the receive with which
\* Execute returns, so it has no step here.
NextExec ==
    \/ \E io \in BOOLEAN : ExecuteBegin(io)
    \/ \E ok \in BOOLEAN : ExecCallReturn(ok)
    \/ ExecStart
    \/ CmdRecvInit
    \/ CmdRecvExec
    \/ \E tty, ok \in BOOLEAN : CmdMakeRaw(tty, ok)
    \/ \E ok \in BOOLEAN : CmdStartCall(ok)
    \/ CmdRecvCopy
    \/ \E p \in Streams, side \in Sides, ok \in BOOLEAN : ExecConnectorResult(p, side, ok)
    \/ \E p \in Streams, side \in Sides : ExecRunning /\ ProxySelect(p, side)
    \/ \E p \in Streams : ExecRunning /\ ProxySendInit(p)
    \/ \E p \in Streams : ExecRunning /\ ProxyCloseInit(p)
    \/ \E p \in Streams : ExecRunning /\ ProxyFailClose(p)
    \/ \E p \in Streams : ExecRunning /\ CopyRead(p)
    \/ \E p \in Streams : ExecRunning /\ CopyWrite(p)
    \/ \E p \in Streams : ExecRunning /\ ProxySendCopy(p)
    \/ \E p \in Streams : ExecRunning /\ ProxyFinalClose(p)
    \/ \E p \in Streams : ExecRunning /\ ProxyCloseCopy(p)
    \/ \E p \in Streams : ExecRunning /\ ProxyCancel(p)
    \/ \E p \in Streams : ExecRunning /\ WatcherWake(p)
    \/ \E p \in Streams : ExecRunning /\ WatcherFire(p)
    \/ ExecRunning /\ Tick
    \/ \E p \in Streams : ExecRunning /\ InitErrRecv(p)
    \/ \E p \in Streams : ExecRunning /\ CopyErrRecvClosed(p)
    \/ \E p \in Streams : ExecRunning /\ CopyErrReturn(p)
    \/ ExecRunning /\ AggInitWait
    \/ ExecRunning /\ AggInitClose
    \/ ExecRunning /\ AggCopyWait

Spec == Init /\ [][Next]_vars

PairSpec == InitPair /\ [][NextRelay]_vars

SetSpec == InitSet /\ [][NextRelay]_vars

ExitSpec == InitExit /\ [][NextRelay]_vars

\* The scheduler runs every goroutine that can take a step; every connector
\* delivers its result, every Read and Write returns, time passes and the
\* caller of Start reads both signals.  The exit of the process is not
\* assumed to happen.
RelayStep == NextRelay /\ ~ProcExit

FairSetSpec == InitSet /\ [][NextRelay]_vars /\ WF_vars(RelayStep)

FailSpec == InitFail /\ [][NextRelay]_vars

\* The steps of the connectors of p and of the proxy goroutine of p on the
\* path of a failed init, to its end (io.go:101-140 and the defers of 105-106).
ProxyInitStep(p) ==
    \/ \E side \in Sides, ok \in BOOLEAN : ConnectorResult(p, side, ok)
    \/ \E side \in Sides : ProxySelect(p, side)
    \/ ProxySendInit(p)
    \/ ProxyCloseInit(p)
    \/ ProxyFailClose(p)
    \/ ProxyCloseCopy(p)
    \/ ProxyCancel(p)

\* The scheduler runs the connectors and the proxy goroutines; nothing is
\* assumed of the goroutines that receive from initDone and copyDone.
FairInitSpec ==
    InitSibling /\ [][NextRelay]_vars /\ \A p \in Streams : WF_vars(ProxyInitStep(p))

FairFailSpec == InitFail /\ [][NextRelay]_vars /\ WF_vars(RelayStep)

SiblingSpec == InitSibling /\ [][NextRelay]_vars

FairSiblingSpec == InitSibling /\ [][NextRelay]_vars /\ WF_vars(RelayStep)

CloseSpec == InitClose /\ [][NextRelay]_vars

ExecSpec == InitExec /\ [][NextExec]_vars

CancelSpec == InitCancel /\ [][NextRelay]_vars

FairCancelSpec == InitCancel /\ [][NextRelay]_vars /\ WF_vars(RelayStep)

TermSpec == InitTerm /\ [][NextRelay]_vars

\* The calls of nextVSockPort on one ExecCmd: by the one Execute of the
\* program (main.go:22), and by several callers at once.
InitPort ==
    \E E \in {{1}, Callers}, n \in StartCounts :
        /\ pairs = {}
        /\ content = [p \in Streams |-> SourceBytes(p, 0)]
        /\ dialFail = FALSE
        /\ faulty = {}
        /\ exits = FALSE
        /\ callers = {}
        /\ closeFail = FALSE
        /\ blocks = FALSE
        /\ InitState
        /\ PortState(E, n)

NextPort ==
    \/ \E c \in Callers : nextVSockPortLock(c)
    \/ \E c \in Callers : nextVSockPortAdd(c)
    \/ \E c \in Callers : nextVSockPortIncr(c)
    \/ \E c \in Callers : nextVSockPortReturn(c)

PortSpec == InitPort /\ [][NextPort]_vars

\* As above, and the process does exit.
FairTermSpec == InitTerm /\ [][NextRelay]_vars /\ WF_vars(NextRelay)

(***************************************************************************)
(* Properties of one Stream Proxy.                                         *)
(***************************************************************************)
Other(side) == IF side = "read" THEN "write" ELSE "read"

IsPrefix(a, b) == Len(a) <= Len(b) /\ a = SubSeq(b, 1, Len(a))

\* The bytes the read stream of p has produced so far.
Produced(p) == SubSeq(content[p], 1, proxy[p].rpos)

\* The copy phase of p has begun: the watcher was started, the goroutine is
\* in or past io.CopyBuffer, or a Read or Write was made.
CopyStarted(p) ==
    \/ watcher[p].pc /= "none"
    \/ proxy[p].pc \in {"read", "write", "sendCopy", "finalClose"}
    \/ proxy[p].didIO

\* Exactly one connector of p delivered an error, the other a stream.
OneFailed(p) ==
    \E side \in Sides : /\ proxy[p].result[side] = "err"
                        /\ proxy[p].result[Other(side)] = "ok"

\* io.CopyBuffer of p returned nil: the read stream reached a clean EOF.
CleanEOF(p) ==
    /\ proxy[p].didIO
    /\ proxy[p].pc \in {"finalClose", "closeCopy", "cancel", "done"}
    /\ proxy[p].err = Nil

\* C2: the copy loop and the exit watcher of a proxy are started only after
\* both connectors delivered a stream and both results were received; a proxy
\* with a failed connector never reads or writes.
C2_CopyOnlyAfterInit ==
    \A p \in Streams :
        /\ CopyStarted(p) =>
              \A side \in Sides : /\ proxy[p].result[side] = "ok"
                                  /\ proxy[p].resultCh[side] = "nil"
                                  /\ proxy[p].initClosed
        /\ (\E side \in Sides : proxy[p].result[side] = "err") => ~proxy[p].didIO

C2_Witness ==
    \E p \in Streams : /\ proxy[p].pc = "write"
                       /\ watcher[p].pc /= "none"
                       /\ \A side \in Sides : proxy[p].result[side] = "ok"

\* C3: when one connector fails and the other succeeds, the proxy never
\* enters the copy phase and the acquired stream is closed before copyDone
\* is closed; no acquired stream is open once copyDone is closed.
C3_NoLeakOnInitFailure ==
    \A p \in Streams :
        /\ OneFailed(p) => ~CopyStarted(p)
        /\ proxy[p].copyClosed =>
              \A side \in Sides :
                  /\ proxy[p].stream[side] /= "open"
                  /\ proxy[p].result[side] = "ok" => proxy[p].stream[side] = "closed"

C3_Witness ==
    \E p \in Streams, side \in Sides :
        /\ proxy[p].pc = "done"
        /\ proxy[p].result[side] = "err"
        /\ proxy[p].result[Other(side)] = "ok"
        /\ proxy[p].stream[Other(side)] = "closed"

\* C4: an error whose message contains "use of closed network connection"
\* or "file already closed" is never sent on copyDone.
C4_BenignNotReported ==
    \A p \in Streams : ~IsBenign(copyErrG.recv[p])

\* C5: at most one error is ever sent on the initDone of a proxy.
C5_AtMostOneInitErr ==
    \A p \in Streams : proxy[p].nInitSent <= 1

\* C6: the bytes written are at every moment a prefix of the bytes the read
\* stream produced; after a clean EOF they are equal, and nothing was or will
\* be sent on copyDone.
C6_CopyIsFaithful ==
    \A p \in Streams :
        /\ IsPrefix(proxy[p].sink, Produced(p))
        /\ CleanEOF(p) => /\ proxy[p].sink = Produced(p)
                          /\ Produced(p) = content[p]
                          /\ copyErrG.recv[p] = Nil
                          /\ copyErrG.wait[p] /= "got"

C6_Witness ==
    \E p \in Streams : /\ CleanEOF(p)
                       /\ Len(proxy[p].sink) >= 2
                       /\ copyErrG.wait[p] = "done"

(***************************************************************************)
(* Properties of the exit watchers.                                        *)
(***************************************************************************)
\* The proxy of p is inside io.CopyBuffer.
Copying(p) == proxy[p].pc \in {"read", "write"}

BothOpen(p) == \A side \in Sides : proxy[p].stream[side] = "open"

\* C7: once ctx is cancelled the watcher of stdin can close its streams with
\* no time passing, whatever the other timers say; the watchers of stdout and
\* stderr close theirs only after ctx was cancelled and their timer then ran
\* defaultIOFlushTimeout > 0 seconds, and until then the streams of a proxy
\* that is still copying stay open.
C7_GraceDurations ==
    /\ defaultIOFlushTimeout > 0
    /\ watcher["stdin"].pc = "wait" /\ ctxDone => ENABLED WatcherWake("stdin")
    /\ watcher["stdin"].pc = "timer" => ENABLED WatcherFire("stdin")
    /\ \A p \in {"stdout", "stderr"} :
          /\ watcher[p].pc \in {"timer", "fired"} => ctxDone
          /\ watcher[p].pc = "fired" => watcher[p].elapsed >= defaultIOFlushTimeout
          /\ watcher[p].pc = "timer" /\ watcher[p].elapsed < defaultIOFlushTimeout
                => ~ENABLED WatcherFire(p)
          /\ Copying(p) /\ watcher[p].pc /= "fired" => BothOpen(p)

\* All three proxies copy, no source has ended, the process has exited: the
\* streams of stdin are closed by its watcher while the timers of stdout and
\* stderr have not run and their streams are open.
C7_Witness ==
    /\ pairs = Streams
    /\ procCtxDone
    /\ \A p \in Streams : Copying(p)
    /\ watcher["stdin"].pc = "fired"
    /\ \A side \in Sides : proxy["stdin"].stream[side] = "closed"
    /\ \A p \in {"stdout", "stderr"} : /\ watcher[p].pc = "timer"
                                       /\ watcher[p].elapsed = 0
                                       /\ BothOpen(p)

(***************************************************************************)
(* Properties of the closed flag.                                          *)
(***************************************************************************)
\* A step of a Close or IsOpen call.
CallStep == call' /= call

\* C8: closed starts false and never goes from true to false, so a Close on
\* a closed set changes nothing; an IsOpen that started after some Close had
\* returned returns false, and an IsOpen that returns before any Close has
\* started returns true.
C8_ClosedFlag ==
    /\ closed = FALSE
    /\ [][closed => closed']_vars
    /\ [][closed /\ CallStep => UNCHANGED <<closed, relayVars>>]_vars
    /\ [](\A c \in Callers :
             call[c].pc = "openRet" =>
                 /\ call[c].after => call[c].res = FALSE
                 /\ ~closeStarted => call[c].res = TRUE)

\* Two callers: one Close has returned, an IsOpen that started after it is
\* about to return false while the other caller is inside a further Close.
C8_Witness ==
    \E c \in Callers :
        /\ call[c].pc = "openRet"
        /\ call[c].after
        /\ call[c].res = FALSE
        /\ closeReturned
        /\ \E d \in Callers \ {c} : call[d].pc = "closeLock"

\* C9: a step of Close (or IsOpen) changes nothing of the relay: no stream,
\* no context, no proxy, no pending outcome, no aggregate signal; and the
\* flag changes only in the step of Close that sets it.
C9_CloseFrame ==
    [][/\ CallStep => UNCHANGED <<configVars, portVars, relayVars>>
       /\ relayVars' /= relayVars => UNCHANGED flagVars
       /\ closed' /= closed => \E c \in Callers : call[c].pc = "closeSet"]_vars

\* Close ran to its end during the copy phase, and the relay went on to
\* deliver its outcome.
C9_Witness ==
    /\ closed
    /\ closeReturned
    /\ \E p \in pairs : /\ CleanEOF(p)
                        /\ proxy[p].pc = "done"
                        /\ proxy[p].sink = content[p]
                        /\ Len(content[p]) > 0
    /\ aggCopy.closed

(***************************************************************************)
(* Properties of the Proxy Set.                                            *)
(***************************************************************************)
\* Every connector of a configured pair delivered a stream, and no Read or
\* Write has failed.
CleanRun ==
    \A p \in pairs : /\ \A side \in Sides : proxy[p].result[side] /= "err"
                     /\ ~proxy[p].fault

\* C10: with all three pairs configured, every connector succeeding and
\* every source producing its content and then EOF, the aggregate init
\* signal delivers nil, and when the aggregate copy signal delivers, it
\* delivers nil and every sink holds exactly the content of its own source.
C10_EndToEnd ==
    pairs = Streams /\ CleanRun =>
        /\ aggInit.delivered \in {<<>>, <<Nil>>}
        /\ aggCopy.delivered \in {<<>>, <<Nil>>}
        /\ aggCopy.delivered /= <<>> =>
              \A p \in Streams : /\ proxy[p].sink = content[p]
                                 /\ proxy[p].sink = SourceBytes(p, Len(content[p]))
                                 /\ CleanEOF(p)

C10_Witness ==
    /\ pairs = Streams
    /\ CleanRun
    /\ aggInit.delivered = <<Nil>>
    /\ aggCopy.delivered = <<Nil>>
    /\ aggInit.closed /\ aggCopy.closed
    /\ \A p \in Streams : /\ proxy[p].sink = content[p]
                          /\ Len(proxy[p].sink) >= 2

\* C1: for every subset of the pairs, each of the two signals of Start
\* never delivers more than one value, is closed only after delivering one,
\* and is eventually closed.
C1_SignalsDeliverOnce ==
    /\ [](/\ Len(aggInit.delivered) <= 1
          /\ Len(aggCopy.delivered) <= 1
          /\ aggInit.closed => Len(aggInit.delivered) = 1 /\ aggInit.pc = "done"
          /\ aggCopy.closed => Len(aggCopy.delivered) = 1 /\ aggCopy.pc = "done")
    /\ <>[](aggInit.closed /\ aggCopy.closed)

C1_Witness ==
    /\ Cardinality(pairs) = 2
    /\ aggInit.closed /\ Len(aggInit.delivered) = 1
    /\ aggCopy.closed /\ Len(aggCopy.delivered) = 1
    /\ aggInit.delivered[1] /= Nil

(***************************************************************************)
(* Properties of the two joins of Start.                                   *)
(***************************************************************************)
\* The proxy of p has emitted its init outcome: it has sent an error on
\* initDone or has closed it.
InitEmitted(p) == proxy[p].nInitSent > 0 \/ proxy[p].initClosed

\* Some connector of p delivered an error.
ConnectorFailed(p) == \E side \in Sides : proxy[p].result[side] = "err"

\* The join of the init outcomes observes the outcome of p in this step.
InitObserved(p) == initErrG.wait[p] = "wait" /\ initErrG'.wait[p] = "done"

\* C11: the aggregate init signal delivers only after every configured proxy
\* has emitted its init outcome and the join has observed it; the value is
\* nil exactly if no connector of a configured proxy failed, and otherwise it
\* is the init error the join observed first: the error of the group is set
\* by the first observation of a non-nil outcome and never changes after.
C11_AggregateInit ==
    /\ [](aggInit.delivered /= <<>> =>
            /\ \A p \in pairs : InitEmitted(p) /\ initErrG.wait[p] = "done"
            /\ aggInit.delivered[1] = Nil <=> \A p \in pairs : ~ConnectorFailed(p)
            /\ aggInit.delivered[1] /= Nil =>
                  \E p \in pairs : /\ ConnectorFailed(p)
                                   /\ aggInit.delivered[1] = initErrG.recv[p]
                                   /\ Contains(aggInit.delivered[1], p))
    /\ [][\A p \in Streams : InitObserved(p) =>
             initErrG'.err = IF initErrG.err = Nil
                             THEN initErrG'.recv[p]
                             ELSE initErrG.err]_vars
    /\ [][initErrG.err /= Nil => initErrG'.err = initErrG.err]_vars
    /\ [][aggInit'.delivered /= aggInit.delivered =>
             aggInit'.delivered = <<initErrG.err>>]_vars

\* Two configured pairs failed to initialise; the signal has delivered the
\* error of the one the join observed first, which is not the other's.
C11_Witness ==
    /\ Cardinality(pairs) = 2
    /\ \A p \in pairs : ConnectorFailed(p) /\ initErrG.recv[p] /= Nil
    /\ aggInit.delivered /= <<>>
    /\ \E p \in pairs : /\ aggInit.delivered[1] = initErrG.recv[p]
                        /\ \A q \in pairs \ {p} :
                              aggInit.delivered[1] /= initErrG.recv[q]

\* The copyDone of p has delivered an error to the join, or has been closed.
CopyFinished(p) == copyErrG.recv[p] /= Nil \/ proxy[p].copyClosed

\* The goroutine of the copy join that waits on p returns in this step.
CopyObserved(p) == copyErrG.wait[p] /= "done" /\ copyErrG'.wait[p] = "done"

\* C12: the aggregate copy signal delivers only after the copyDone of every
\* configured proxy has delivered an error or was closed; the value is nil
\* exactly if no configured proxy sent an error on its copyDone, and
\* otherwise it is the copy error the join observed first.
C12_AggregateCopy ==
    /\ [](aggCopy.delivered /= <<>> =>
            /\ \A p \in pairs : CopyFinished(p) /\ copyErrG.wait[p] = "done"
            /\ aggCopy.delivered[1] = Nil <=> \A p \in pairs : copyErrG.recv[p] = Nil
            /\ aggCopy.delivered[1] /= Nil =>
                  \E p \in pairs : /\ aggCopy.delivered[1] = copyErrG.recv[p]
                                   /\ aggCopy.delivered[1] = proxy[p].err)
    /\ [][\A p \in Streams : CopyObserved(p) =>
             copyErrG'.err = IF copyErrG.err = Nil
                             THEN copyErrG.recv[p]
                             ELSE copyErrG.err]_vars
    /\ [][copyErrG.err /= Nil => copyErrG'.err = copyErrG.err]_vars
    /\ [][aggCopy'.delivered /= aggCopy.delivered =>
             aggCopy'.delivered = <<copyErrG.err>>]_vars

\* The copies of two configured pairs ended with different errors; the
\* signal has delivered one of them.
C12_Witness ==
    /\ Cardinality(pairs) = 2
    /\ \A p \in pairs : copyErrG.recv[p] /= Nil
    /\ aggCopy.delivered /= <<>>
    /\ \E p \in pairs : /\ aggCopy.delivered[1] = copyErrG.recv[p]
                        /\ \A q \in pairs \ {p} :
                              aggCopy.delivered[1] /= copyErrG.recv[q]

\* The init phase of p failed: the goroutine holds an init error.
InitFailed(p) == proxy[p].ioInitErr /= Nil

\* C13: a proxy whose init failed never sends on its copyDone and is never
\* about to; its copyDone is closed, the copy join takes nil from it, and the
\* aggregate copy signal still delivers once the other proxies finish.
C13_FailedInitOnlyCloses ==
    /\ [](\A p \in Streams :
             InitFailed(p) => /\ proxy[p].pc /= "sendCopy"
                              /\ copyErrG.wait[p] /= "got"
                              /\ copyErrG.recv[p] = Nil
                              /\ proxy[p].err = Nil)
    /\ \A p \in Streams :
          InitFailed(p) ~> /\ proxy[p].copyClosed
                           /\ copyErrG.wait[p] = "done"
                           /\ copyErrG.recv[p] = Nil
    /\ (\E p \in pairs : InitFailed(p)) ~> aggCopy.delivered /= <<>>

\* Of two configured pairs one failed to initialise and the other copied to
\* a clean EOF; the aggregate copy signal has delivered nil.
C13_Witness ==
    /\ Cardinality(pairs) = 2
    /\ \E p \in pairs : /\ InitFailed(p)
                        /\ proxy[p].copyClosed
                        /\ copyErrG.wait[p] = "done"
                        /\ \E q \in pairs \ {p} : CleanEOF(q)
    /\ aggCopy.delivered = <<Nil>>

\* C14: the initDone of a proxy is closed, its outcome emitted, when the
\* exit watcher of the proxy exists and when the proxy makes a Read or a
\* Write, the first one included; so the aggregate copy signal never
\* delivers before every configured proxy has emitted its init outcome.
C14_InitBeforeCopy ==
    /\ [](\A p \in Streams :
             CopyStarted(p) \/ proxy[p].copyClosed =>
                 InitEmitted(p) /\ proxy[p].initClosed)
    /\ [][\A p \in Streams :
             proxy'[p].didIO /\ ~proxy[p].didIO =>
                 /\ proxy[p].initClosed
                 /\ watcher[p].pc /= "none"]_vars
    /\ [](aggCopy.pc \in {"send", "close", "done"} \/ aggCopy.delivered /= <<>> =>
             \A p \in pairs : InitEmitted(p) /\ proxy[p].initClosed)

\* The aggregate copy signal has delivered while the aggregate init signal
\* has not yet; one of the two pairs has copied, the other failed its init.
C14_Witness ==
    /\ Cardinality(pairs) = 2
    /\ aggCopy.delivered /= <<>>
    /\ aggInit.delivered = <<>>
    /\ \E p \in pairs : /\ proxy[p].didIO
                        /\ watcher[p].pc /= "none"
                        /\ \E q \in pairs \ {p} : InitFailed(q)

\* No connector of a configured pair has delivered its result.
NoneConnected ==
    \A p \in pairs, side \in Sides : /\ proxy[p].resultCh[side] = "pending"
                                     /\ proxy[p].result[side] = "none"

\* C15: Start can be called and returns whatever the connectors, the process
\* and the readers of the signals do: it is enabled until it has run, and
\* when it returns no connector has delivered a result, no context is
\* cancelled by it, nothing was copied and nothing was read from a signal.
C15_StartDoesNotBlock ==
    /\ [](~started => ENABLED Start)
    /\ [](~started => /\ \A p \in Streams : proxy[p].pc = "none"
                      /\ aggInit.pc = "none" /\ aggCopy.pc = "none")
    /\ [][~started /\ started' =>
             /\ NoneConnected'
             /\ UNCHANGED <<procCtxDone, ctxDone, watcher>>
             /\ \A p \in Streams : ~proxy'[p].didIO
             /\ aggInit'.delivered = <<>> /\ aggCopy'.delivered = <<>>
             /\ aggInit'.pc = "wait" /\ aggCopy'.pc = "wait"]_vars

\* Start has returned for three configured pairs while no connector has
\* delivered a result, no context is cancelled and no signal was read.
C15_Witness ==
    /\ started
    /\ pairs = Streams
    /\ NoneConnected
    /\ ~procCtxDone /\ ~ctxDone
    /\ aggInit.delivered = <<>> /\ aggCopy.delivered = <<>>

(***************************************************************************)
(* Properties of the exit watchers within a Proxy Set.                     *)
(***************************************************************************)
\* A stream of p goes from open to closed in this step.
StreamClosedNow(p) ==
    \E side \in Sides : /\ proxy[p].stream[side] = "open"
                        /\ proxy'[p].stream[side] = "closed"

\* The grace duration of the watcher of p.
Grace(p) == IF p = "stdin" THEN 0 ELSE defaultIOFlushTimeout

\* C16: a stream of a copying proxy is closed only by the step in which the
\* timer of the proxy's own watcher fires, with ctx cancelled and the timer,
\* started at zero after the cancellation, having run the grace duration of
\* the proxy; the step that cancels ctx closes no stream, and a step of the
\* watcher of one proxy changes nothing of another proxy.
C16_WatcherClosesOwnStreams ==
    /\ [][\A p \in Streams :
             Copying(p) /\ StreamClosedNow(p) =>
                 /\ watcher[p].pc = "timer" /\ watcher'[p].pc = "fired"
                 /\ ctxDone
                 /\ watcher[p].elapsed >= Grace(p)]_vars
    /\ [][\A p \in Streams :
             watcher[p].pc = "wait" /\ watcher'[p].pc /= "wait" =>
                 /\ ctxDone
                 /\ watcher'[p].pc = "timer" /\ watcher'[p].elapsed = 0
                 /\ proxy' = proxy]_vars
    /\ [][ctxDone' /= ctxDone => proxy' = proxy /\ watcher' = watcher]_vars
    /\ [][\A p \in Streams :
             watcher'[p].pc = "fired" /\ watcher[p].pc /= "fired" =>
                 \A q \in Streams \ {p} : proxy'[q] = proxy[q]]_vars
    /\ [](\A p \in Streams :
             Copying(p) /\ watcher[p].pc /= "fired" => BothOpen(p))

\* ctx was cancelled by the copy error of a sibling while the process lives:
\* the watcher of stdin has fired, stdout still copies with its streams open
\* and its timer at zero.
C16_Witness ==
    /\ pairs = {"stdin", "stdout"}
    /\ ctxDone /\ ~procCtxDone
    /\ watcher["stdin"].pc = "fired"
    /\ Copying("stdout") /\ BothOpen("stdout")
    /\ watcher["stdout"].pc = "timer" /\ watcher["stdout"].elapsed = 0

(***************************************************************************)
(* Properties of an init failure within a Proxy Set.                       *)
(***************************************************************************)
\* Both connectors of p delivered a stream.
BothOk(p) == \A side \in Sides : proxy[p].result[side] = "ok"

\* Some other configured pair than p failed to initialise.
SiblingFailed(p) == p \in pairs /\ \E q \in pairs \ {p} : InitFailed(q)

\* C17: a step of a proxy whose init failed, or of the join on its init
\* outcome, changes neither ctx nor any other proxy nor any watcher; while
\* the process lives, ctx is cancelled only once a copy error was reported
\* or every configured proxy has finished; a sibling whose connectors both
\* succeeded completes its copy, every byte written; and the init error is
\* delivered by the aggregate init signal and never sent on a copyDone.
C17_InitFailureNotFatal ==
    /\ [][\A p \in Streams :
             InitFailed(p)' /\ (proxy'[p] /= proxy[p]
                                \/ initErrG'.wait[p] /= initErrG.wait[p]) =>
                 /\ ctxDone' = ctxDone
                 /\ watcher' = watcher
                 /\ \A q \in Streams \ {p} : proxy'[q] = proxy[q]]_vars
    /\ [](ctxDone /\ ~procCtxDone =>
             \/ \E p \in pairs : copyErrG.recv[p] /= Nil
             \/ \A p \in pairs : copyErrG.wait[p] = "done")
    /\ [](\A p \in Streams :
             SiblingFailed(p) /\ Copying(p) /\ ~ctxDone => BothOpen(p))
    /\ \A p \in Streams :
          SiblingFailed(p) /\ BothOk(p) /\ faulty = {} /\ ~exits
              ~> proxy[p].pc = "done" /\ CleanEOF(p) /\ proxy[p].sink = content[p]
    /\ [](\A p \in pairs :
             InitFailed(p) =>
                 /\ copyErrG.recv[p] = Nil
                 /\ aggInit.delivered /= <<>> => aggInit.delivered[1] /= Nil
                 /\ aggCopy.delivered /= <<>> =>
                       aggCopy.delivered[1] /= proxy[p].ioInitErr)

\* One pair failed to initialise, the aggregate init signal delivered its
\* error; the sibling copied its content to the end and ctx was not cancelled
\* before its goroutine returned.
C17_Witness ==
    \E p \in pairs, q \in pairs :
        /\ p /= q
        /\ InitFailed(p) /\ proxy[p].pc = "done"
        /\ aggInit.delivered = <<proxy[p].ioInitErr>>
        /\ BothOk(q) /\ CleanEOF(q) /\ proxy[q].pc = "done"
        /\ proxy[q].sink = content[q] /\ Len(content[q]) > 0
        /\ BothOpen(q) = FALSE
        /\ ~ctxDone

(***************************************************************************)
(* Properties of the errors of Close.                                      *)
(***************************************************************************)
\* err is, or holds, the error of a failed Close.
IsCloseErr(err) == Contains(err, "close failed")

\* The values that are or were in a signal of p or of the set.
SignalValues(p) ==
    {proxy[p].initDone[i] : i \in 1..Len(proxy[p].initDone)}
        \cup {aggInit.delivered[i] : i \in 1..Len(aggInit.delivered)}
        \cup {aggCopy.delivered[i] : i \in 1..Len(aggCopy.delivered)}
        \cup {proxy[p].ioInitErr, proxy[p].err, initErrG.recv[p], copyErrG.recv[p],
              initErrG.err, copyErrG.err, aggInit.val, aggCopy.val}

\* proxy[p] without what logClose logged.
Unlogged(px) == [px EXCEPT !.closeErr = Nil]

\* A step in which logClose runs for p.
LogCloseStep(p) ==
    \/ proxy[p].pc \in {"failClose", "finalClose"} /\ proxy'[p].pc = "closeCopy"
    \/ watcher[p].pc = "timer" /\ watcher'[p].pc = "fired"

\* C18: the error of a failed Close is never a value sent on initDone or
\* copyDone, received by a join or delivered by an aggregate signal; it
\* changes only what logClose logs: whether or not Closes fail, a step of
\* logClose closes the same streams and leaves the goroutine at the same
\* place with the same outcome, and only such a step changes the log.
C18_CloseErrorsOnlyLogged ==
    /\ [](\A p \in Streams : \A v \in SignalValues(p) : ~IsCloseErr(v))
    /\ [][\A p \in Streams :
             LogCloseStep(p) =>
                 Unlogged(proxy'[p]) =
                     Unlogged([proxy[p] EXCEPT
                                 !.stream = [s \in Sides |->
                                               IF @[s] = "nil" THEN "nil" ELSE "closed"],
                                 !.pc = IF watcher'[p] /= watcher[p]
                                        THEN @ ELSE "closeCopy"])]_vars
    /\ [][\A p \in Streams :
             proxy'[p].closeErr /= proxy[p].closeErr =>
                 /\ LogCloseStep(p)
                 /\ IsCloseErr(proxy'[p].closeErr)
                 /\ UNCHANGED <<ctxDone, procCtxDone, initErrG, copyErrG,
                                aggInit, aggCopy>>]_vars
    /\ [](\A p \in Streams :
             /\ proxy[p].pc = "failClose" =>
                   ENABLED (ProxyFailClose(p) /\ proxy'[p].closeErr = proxy[p].closeErr)
             /\ proxy[p].pc = "finalClose" =>
                   ENABLED (ProxyFinalClose(p) /\ proxy'[p].closeErr = proxy[p].closeErr)
             /\ watcher[p].pc = "timer" /\ watcher[p].elapsed >= Grace(p) =>
                   ENABLED (WatcherFire(p) /\ proxy'[p].closeErr = proxy[p].closeErr))

\* Both Closes failed after a copy that ended at a clean EOF: the error was
\* logged and both aggregate signals delivered nil.
C18_Witness ==
    \E p \in pairs :
        /\ proxy[p].closeErr = CloseErr(p, "read") \o CloseErr(p, "write")
        /\ CleanEOF(p) /\ Len(proxy[p].sink) > 0
        /\ proxy[p].pc = "done"
        /\ aggInit.delivered = <<Nil>>
        /\ aggCopy.delivered = <<Nil>>

(***************************************************************************)
(* Termination of the Stream Proxies.                                      *)
(***************************************************************************)
\* The terminal state of the proxy of p: the goroutine has returned, copyDone
\* is closed and no acquired stream is open.
Closed(p) ==
    /\ proxy[p].pc = "done"
    /\ proxy[p].copyClosed
    /\ \A side \in Sides :
          /\ proxy[p].stream[side] /= "open"
          /\ proxy[p].result[side] = "ok" => proxy[p].stream[side] = "closed"

\* C19: when every step that can be taken is eventually taken (the
\* connectors deliver, the process exits, time passes, a Read or Write on a
\* closed stream returns), every configured proxy reaches its terminal state
\* and stays there, whatever the way its init or its copy ended.
C19_EveryProxyCloses ==
    <>[](\A p \in pairs : Closed(p))

\* The sources never end and the process has exited: one proxy failed its
\* init, the copy of the other ended with the error of a closed stream, and
\* both are in their terminal state.
C19_Witness ==
    /\ blocks /\ procCtxDone
    /\ \A p \in pairs : Closed(p)
    /\ \E p \in pairs, q \in pairs :
          /\ InitFailed(p)
          /\ IsBenign(proxy[q].err)
          /\ Len(proxy[q].sink) > 0
          /\ watcher[q].pc = "fired"

(***************************************************************************)
(* Properties of ExecCmd.Execute.                                          *)
(***************************************************************************)
\* The Exec call has returned without error and Execute has received that.
ExecSucceeded == execCall.pc = "done" /\ execCall.err = Nil

\* C20: with the I/O relay, the Start call is made only after the aggregate
\* init signal delivered nil and the Exec call returned without error; when
\* the aggregate init signal delivers an error Execute returns failure
\* without a Start call; and the aggregate copy signal is read only after
\* the Start call succeeded.
C20_StartAfterInitAndExec ==
    /\ [][cmd'.startCall /= cmd.startCall =>
             /\ cmd.startCall = "none"
             /\ ExecSucceeded
             /\ cmd.io => aggInit.delivered = <<Nil>>]_vars
    /\ [](cmd.startCall /= "none" =>
             /\ ExecSucceeded
             /\ cmd.io => aggInit.delivered = <<Nil>>)
    /\ [](aggInit.delivered /= <<>> /\ aggInit.delivered[1] /= Nil =>
             /\ cmd.pc = "returned"
             /\ cmd.status = "ExitFailure"
             /\ cmd.startCall = "none")
    /\ [][aggCopy'.delivered /= aggCopy.delivered =>
             cmd.io /\ cmd.startCall = "ok" /\ cmd.pc = "recvCopy"]_vars
    /\ [](aggCopy.delivered /= <<>> => cmd.io /\ cmd.startCall = "ok")

\* Execute returned success: init delivered nil, Exec and Start succeeded,
\* every pair relayed its byte, and the aggregate copy signal delivered nil.
C20_Witness ==
    /\ cmd.io
    /\ cmd.pc = "returned" /\ cmd.status = "ExitSuccess"
    /\ cmd.startCall = "ok"
    /\ ExecSucceeded
    /\ aggInit.delivered = <<Nil>>
    /\ aggCopy.delivered = <<Nil>>
    /\ \A p \in Streams : proxy[p].sink = content[p] /\ Len(content[p]) > 0

(***************************************************************************)
(* Properties of the cancellation of the shared context.                   *)
(***************************************************************************)
\* Some configured proxy has sent a copy error on its copyDone.
CopyErrorReported == \E p \in pairs : copyErrG.recv[p] /= Nil

\* C21: a copy error sent on a copyDone leads to the cancellation of ctx
\* though the process lives; a watcher that waits, or comes to wait, while
\* ctx is cancelled then fires, and it fires only after its own grace time,
\* leaving no stream of its proxy open; and while the process lives and no
\* copy error was sent, ctx is not cancelled as long as some proxy has not
\* finished, whatever clean EOF a sibling has reached.
C21_CopyErrorCancels ==
    /\ CopyErrorReported ~> ctxDone
    /\ \A p \in Streams :
          watcher[p].pc = "wait" /\ ctxDone
              ~> /\ watcher[p].pc = "fired"
                 /\ watcher[p].elapsed >= Grace(p)
                 /\ \A side \in Sides : proxy[p].stream[side] = "closed"
    /\ [](~procCtxDone /\ ~CopyErrorReported
             /\ (\E q \in pairs : copyErrG.wait[q] /= "done")
             => ~ctxDone)
    /\ [](\A p \in pairs, q \in pairs :
             CleanEOF(p) /\ Copying(q) /\ ~procCtxDone /\ ~CopyErrorReported
                 => ~ctxDone /\ BothOpen(q))

\* The sources never end and the process lives: the copy of stdin failed,
\* which cancelled ctx, and the watcher of stdout closed the streams of its
\* proxy after the grace time, ending that copy with the error of a closed
\* stream.
C21_Witness ==
    /\ blocks /\ ~procCtxDone /\ ctxDone
    /\ pairs = {"stdin", "stdout"}
    /\ copyErrG.recv["stdin"] = IOErr("stdin", "read")
    /\ watcher["stdout"].pc = "fired"
    /\ watcher["stdout"].elapsed = defaultIOFlushTimeout
    /\ IsBenign(proxy["stdout"].err)
    /\ proxy["stdout"].pc = "done"

(***************************************************************************)
(* Properties of the init phase.                                           *)
(***************************************************************************)
\* The connector of p on this side holds its result for the proxy: a vsock
\* dial connector is blocked in its send.
ResultWaiting(p, side) == proxy[p].resultCh[side] \in {"ok", "err"}

\* The proxy of p has received the result of the connector on this side.
ResultReceived(p, side) == proxy[p].resultCh[side] = "nil"

\* C22: the result channel of each connector goes from pending to holding
\* one result to received and changes no more, so each connector delivers
\* exactly one result, in either order; initDone is closed only after both
\* were received; and a result that waits is eventually received, whatever
\* the other connector delivered before.
C22_BothConnectorsDrained ==
    /\ [][\A p \in Streams, side \in Sides :
             proxy'[p].resultCh[side] /= proxy[p].resultCh[side] =>
                 \/ proxy[p].resultCh[side] = "none"
                       /\ proxy'[p].resultCh[side] = "pending"
                 \/ proxy[p].resultCh[side] = "pending" /\ ResultWaiting(p, side)'
                 \/ /\ ResultWaiting(p, side) /\ ResultReceived(p, side)'
                    /\ proxy[p].pc = "select"
                    /\ ~proxy[p].initClosed]_vars
    /\ [](\A p \in Streams :
             proxy[p].initClosed \/ proxy[p].pc \notin {"none", "select", "sendInit"} =>
                 \A side \in Sides : ResultReceived(p, side))
    /\ \A p \in Streams, side \in Sides :
          ResultWaiting(p, side) ~> ResultReceived(p, side)

\* The read connector failed and its error was received and sent first; the
\* stream of the write connector was received after that and closed.
C22_Witness ==
    \E p \in pairs :
        /\ proxy[p].result["read"] = "err"
        /\ proxy[p].result["write"] = "ok"
        /\ proxy[p].ioInitErr = WrapInitErr(DialErr(p, "read"))
        /\ proxy[p].nInitSent = 1
        /\ \A side \in Sides : ResultReceived(p, side)
        /\ proxy[p].stream["write"] = "closed"
        /\ proxy[p].initClosed

\* The proxy of p is in its init phase (io.go:108-136).
InInit(p) == proxy[p].pc \in {"select", "sendInit", "closeInit"}

\* C23: the step that cancels procCtx changes no proxy: it cancels no ioCtx
\* and moves no proxy; a proxy leaves its init phase only by closing
\* initDone with both results received; and an ioCtx is cancelled only in
\* the last step of its proxy, after copyDone was closed.
C23_ExitLeavesInitAlone ==
    /\ [][procCtxDone' /= procCtxDone => proxy' = proxy]_vars
    /\ [][\A p \in Streams :
             InInit(p) /\ ~InInit(p)' =>
                 /\ \A side \in Sides : ResultReceived(p, side)
                 /\ ~proxy[p].initClosed /\ proxy'[p].initClosed]_vars
    /\ [](\A p \in Streams :
             proxy[p].ioCtxDone => proxy[p].pc = "done" /\ proxy[p].copyClosed)
    /\ [](\A p \in Streams :
             procCtxDone /\ InInit(p) => ~proxy[p].ioCtxDone)

\* The process has exited while the proxy waits for a connector that works
\* with an ioCtx that is not cancelled; the other result is received.
C23_Witness ==
    \E p \in pairs :
        /\ procCtxDone
        /\ proxy[p].pc = "select"
        /\ proxy[p].resultCh["read"] = "pending"
        /\ ResultReceived(p, "write")
        /\ ~proxy[p].ioCtxDone

\* The watcher of p has closed both streams of p, its timer having run the
\* grace duration of p and no longer.
ForceClosed(p) ==
    /\ watcher[p].pc = "fired"
    /\ watcher[p].elapsed = Grace(p)
    /\ \A side \in Sides : proxy[p].stream[side] = "closed"

\* C24: when the process has exited while a proxy is in its init phase, the
\* proxy either fails its init or its watcher, started after the exit, closes
\* both streams once the grace duration of the pair has run (none for stdin);
\* the init of a proxy whose connectors both succeed does not fail;
\* a watcher that starts with the exit already signalled can take its first
\* step at once.
C24_EarlyExitNotLost ==
    /\ \A p \in Streams :
          procCtxDone /\ InInit(p)
              ~> \/ proxy[p].initClosed /\ proxy[p].ioInitErr /= Nil
                 \/ ForceClosed(p)
    /\ [](\A p \in Streams :
             (\A side \in Sides : proxy[p].result[side] = "ok") =>
                 proxy[p].ioInitErr = Nil)
    /\ [](\A p \in Streams :
             procCtxDone /\ watcher[p].pc = "wait" => ENABLED WatcherWake(p))

\* The process exited before stdin had read anything; init succeeded and the
\* watcher has closed both streams with no time passed.
C24_Witness ==
    /\ procCtxDone
    /\ "stdin" \in pairs
    /\ proxy["stdin"].initClosed
    /\ proxy["stdin"].ioInitErr = Nil
    /\ proxy["stdin"].pc = "read"
    /\ ~proxy["stdin"].didIO
    /\ ForceClosed("stdin")
    /\ watcher["stdin"].elapsed = 0

\* C25: a proxy that is about to send on initDone can send, whatever was
\* received from initDone so far; with nothing assumed of the receivers, a
\* started proxy receives both results and closes initDone, and one whose
\* init failed goes on to close the streams it acquired and copyDone.
C25_InitNeverBlocks ==
    /\ [](\A p \in Streams :
             proxy[p].pc = "sendInit" => ENABLED ProxySendInit(p))
    /\ [](\A p \in Streams :
             /\ proxy[p].nInitSent <= initDoneCap
             /\ Len(proxy[p].initDone) <= proxy[p].nInitSent)
    /\ \A p \in Streams :
          proxy[p].pc = "select"
              ~> /\ proxy[p].initClosed
                 /\ \A side \in Sides : ResultReceived(p, side)
    /\ \A p \in Streams :
          proxy[p].ioInitErr /= Nil
              ~> /\ proxy[p].initClosed
                 /\ proxy[p].copyClosed
                 /\ proxy[p].pc = "done"
                 /\ \A side \in Sides :
                       /\ ResultReceived(p, side)
                       /\ proxy[p].stream[side] /= "open"

\* Both connectors of a pair failed and nothing was received from initDone:
\* both errors are buffered, initDone and copyDone are closed.
C25_Witness ==
    \E p \in pairs :
        /\ \A side \in Sides : proxy[p].result[side] = "err"
        /\ initErrG.wait[p] = "wait"
        /\ Len(proxy[p].initDone) = initDoneCap
        /\ proxy[p].initClosed
        /\ proxy[p].copyClosed
        /\ proxy[p].pc = "done"

\* The proxy goroutine of p has called Close on every stream it acquired:
\* it is past its logClose.
ProxyClosedOwn(p) ==
    /\ proxy[p].pc \in {"closeCopy", "cancel", "done"}
    /\ \A side \in Sides :
          proxy[p].result[side] = "ok" => proxy[p].stream[side] = "closed"

\* C26: when the aggregate copy signal has delivered nil, the goroutine of
\* every configured proxy is past its logClose and every stream a connector
\* delivered is closed; the goroutine gets past its copy or its failed init
\* only by a step that closes every stream it holds.
C26_NilAfterClose ==
    /\ [](aggCopy.delivered = <<Nil>> => \A p \in pairs : ProxyClosedOwn(p))
    /\ [](\A p \in Streams : proxy[p].copyClosed => ProxyClosedOwn(p))
    /\ [][\A p \in Streams :
             proxy[p].pc /= "closeCopy" /\ proxy'[p].pc = "closeCopy" =>
                 /\ proxy[p].pc \in {"failClose", "finalClose"}
                 /\ \A side \in Sides :
                       proxy[p].stream[side] /= "nil" =>
                           proxy'[p].stream[side] = "closed"]_vars

\* The aggregate copy signal has delivered nil with two pairs configured; one
\* of them failed its init having acquired its reader, which only the proxy
\* goroutine can have closed, and the other copied to the end.
C26_Witness ==
    /\ aggCopy.delivered = <<Nil>>
    /\ \E p \in pairs, q \in pairs :
          /\ proxy[p].result = [s \in Sides |-> IF s = "read" THEN "ok" ELSE "err"]
          /\ watcher[p].pc = "none"
          /\ proxy[p].stream["read"] = "closed"
          /\ proxy[q].result = [s \in Sides |-> "ok"]
          /\ proxy[q].err = Nil
          /\ watcher[q].pc /= "fired"
          /\ \A side \in Sides : proxy[q].stream[side] = "closed"

\* The copy loop of p has ended and the goroutine has closed both streams.
ClosedAfterCopy(p) ==
    /\ proxy[p].ioInitErr = Nil
    /\ proxy[p].pc \in {"closeCopy", "cancel", "done"}

\* What a proxy and the two joins report: what was sent on initDone and
\* copyDone and whether they are closed, and the state of both aggregates.
Reported(p) ==
    <<proxy[p].initDone, proxy[p].nInitSent, proxy[p].initClosed, proxy[p].ioInitErr,
      proxy[p].err, proxy[p].copyClosed, proxy[p].pc, proxy[p].stream,
      initErrG, copyErrG, aggInit, aggCopy, ctxDone>>

\* The steps that produce or pass on a reported outcome.
OutcomeStep ==
    \/ \E p \in Streams : InitErrRecv(p) \/ CopyErrRecvClosed(p) \/ CopyErrReturn(p)
    \/ \E p \in Streams : ProxySendCopy(p) \/ ProxyCloseCopy(p) \/ ProxyCancel(p)
    \/ AggInitWait \/ AggInitSend \/ AggInitClose
    \/ AggCopyWait \/ AggCopySend \/ AggCopyClose

\* C27: once the copy of a proxy has ended, however it ended, the goroutine
\* leaves its logClose with both streams closed; a step of the watcher that
\* closes streams the goroutine has closed already changes nothing that is
\* reported, of any proxy or of either aggregate, and enables or disables no
\* step that reports: all it may leave is a logged closeErr.
C27_DoubleCloseHarmless ==
    /\ [](\A p \in Streams :
             ClosedAfterCopy(p) => \A side \in Sides : proxy[p].stream[side] = "closed")
    /\ [][\A p \in Streams :
             proxy[p].pc = "finalClose" /\ proxy'[p].pc /= "finalClose" =>
                 /\ proxy'[p].pc = "closeCopy"
                 /\ \A side \in Sides : proxy'[p].stream[side] = "closed"]_vars
    /\ [][\A p \in Streams :
             ClosedAfterCopy(p) /\ watcher[p].pc = "timer" /\ watcher'[p].pc = "fired" =>
                 /\ \A q \in Streams : Reported(q)' = Reported(q)
                 /\ (ENABLED OutcomeStep)' = ENABLED OutcomeStep]_vars

\* Without an exit of the process, all three watchers have fired on pairs
\* whose copy had ended and whose streams the goroutines had closed; both
\* aggregates have delivered nil.
C27_Witness ==
    /\ pairs = Streams
    /\ ~procCtxDone
    /\ \A p \in Streams : watcher[p].pc = "fired" /\ ClosedAfterCopy(p)
    /\ aggInit.delivered = <<Nil>>
    /\ aggCopy.delivered = <<Nil>>

(***************************************************************************)
(* Properties of nextVSockPort.                                            *)
(***************************************************************************)
\* The callers inside the critical section of nextVSockPort.
InSection == {c \in Callers : portCall[c].pc \in {"locked", "incr", "return"}}

\* The ports in s are consecutive values that rise without wrapping.
Consecutive(s) ==
    \A i \in 1..(Len(s) - 1) :
        s[i + 1] = AddU32(s[i], U32(0, 1)) /\ LessU32(s[i], s[i + 1])

\* C28: at most one caller is inside nextVSockPort's critical section; the
\* k-th call to leave it has returned minVsockIOPort + n + (k - 1), where n
\* calls returned before, which is 12000 + (k - 1) on a new ExecCmd; the
\* ports returned rise by one from call to call without wrapping, and those
\* of one caller rise strictly and are consecutive when no other caller runs;
\* a call that finds the port equal to math.MaxUint32 panics: it returns
\* nothing and leaves the count, which so never takes the port past the
\* uint32.
C28_PortsDistinctNoWrap ==
    /\ [](Cardinality(InSection) <= 1 /\ (InSection /= {} => InSection = {vsockPortMu}))
    /\ [](\A k \in 1..Len(issued) :
             /\ issued[k] = AddU32(AddU32(minVsockIOPort, calledBefore), U32(0, k - 1))
             /\ calledBefore = U32(0, 0) => issued[k] = U32(0, 12000 + (k - 1))
             /\ issued[k] /= MaxUint32
             /\ ~LessU32(issued[k], minVsockIOPort))
    /\ [](Consecutive(issued))
    /\ [](\A c \in Callers :
             /\ \A i \in 1..Len(portCall[c].got), j \in 1..Len(portCall[c].got) :
                   i < j => LessU32(portCall[c].got[i], portCall[c].got[j])
             /\ execs = {c} => Consecutive(portCall[c].got)
             /\ \A d \in Callers \ {c} :
                   \A i \in 1..Len(portCall[c].got), j \in 1..Len(portCall[d].got) :
                       portCall[c].got[i] /= portCall[d].got[j])
    /\ [](~LessU32(AddU32(minVsockIOPort, vsockIOPortCount), minVsockIOPort))
    /\ [](panicked => AddU32(minVsockIOPort, vsockIOPortCount) = MaxUint32)
    /\ [][\A c \in Callers :
             /\ portCall[c].pc = "locked"
             /\ AddU32(minVsockIOPort, vsockIOPortCount) = MaxUint32
             /\ portCall'[c] /= portCall[c]
             => /\ panicked'
                /\ portCall'[c].pc = "panic"
                /\ issued' = issued
                /\ vsockIOPortCount' = vsockIOPortCount]_vars
    /\ [][panicked => UNCHANGED vars]_vars

\* Two callers at once, three calls before the last port: caller 1 got the
\* first and the third port, caller 2 the one between, and the fourth call
\* has panicked at math.MaxUint32.
C28_Witness ==
    /\ panicked
    /\ portCall[1].got = <<SubU32(MaxUint32, U32(0, 3)), SubU32(MaxUint32, U32(0, 1))>>
    /\ portCall[2].got = <<SubU32(MaxUint32, U32(0, 2))>>
    /\ issued = <<SubU32(MaxUint32, U32(0, 3)), SubU32(MaxUint32, U32(0, 2)),
                  SubU32(MaxUint32, U32(0, 1))>>
    /\ \E c \in Callers : portCall[c].pc = "panic" /\ portCall[c].port = MaxUint32

====
